---------------------------- MODULE Spec2Model ----------------------------
(***************************************************************************)
(* Model of the expense scrapers: the amount parsers parse_money           *)
(* (cnfans_scraper.py) and limpiar_precio (aliexpress_scraper.py), the     *)
(* date parsers parse_create_time_to_date and procesar_fecha, the monthly  *)
(* aggregation of build_expense_rows, the page loop of                     *)
(* scrape_cnfans_orders with process_page_orders, and main of              *)
(* aliexpress_scraper.py.                                                  *)
(*                                                                         *)
(* A text is a sequence of one-character strings.  The label "Total:" is   *)
(* kept as one element of a text: neither parser ever looks inside it      *)
(* (limpiar_precio removes it whole, parse_money skips over it).           *)
(*                                                                         *)
(* A float is the record [sign, int, frac]: the integer part as a number   *)
(* and the fraction digits with trailing zeros removed, so that two        *)
(* records are equal exactly when the parsed numbers are.                  *)
(***************************************************************************)
EXTENDS Integers, Sequences, FiniteSets, TLC

VARIABLES
    pc,           \* which function has run on the current input
    value,        \* the amount text handed to parse_money / limpiar_precio
    amount,       \* what that call returned: [exc, val]
    create_time,  \* the date text handed to parse_create_time_to_date
    order_date,   \* the date it returned (or NoDate)
    fecha_str,    \* the date as save_expenses_to_csv writes it
    reparsed,     \* parse_create_time_to_date of fecha_str
    orders,       \* the orders handed to build_expense_rows
    final_rows,   \* the rows it returned
    \* scrape_cnfans_orders and process_page_orders
    pages,            \* the order list of the site, page by page
    END_DATE,         \* date.today() when the module was loaded
    page_no,          \* the page the browser shows
    idx,              \* i of the loop of process_page_orders (from 1)
    processed_orders, \* processed_orders of process_page_orders
    stop_early,       \* stop_early of process_page_orders
    all_orders,       \* all_orders of scrape_cnfans_orders
    seen_order_nos,   \* seen_order_nos of scrape_cnfans_orders
    examined,         \* history: the <<page, i>> whose order was parsed
    \* main of aliexpress_scraper.py
    items,            \* the order blocks of aliexpress.txt
    item_no,          \* the place of the loop over items (from 1)
    datos_csv,        \* datos_csv
    totales_por_mes,  \* totales_por_mes, in insertion order
    csv_rows,         \* the rows written to gastos_aliexpress.csv
    \* single functions
    texto_fecha,      \* the header text handed to procesar_fecha
    fecha_ret,        \* what procesar_fecha returned: [exc, val]
    products_in,      \* the products handed to pick_hoodie_name
    hoodie_name,      \* the name it returned
    nombre,           \* a product name as the page gives it
    concepto,         \* the Concepto made from nombre
    order_in,         \* the order handed to compute_paid_amount
    paid,             \* the amount it returned
    \* csv_to_pdf.py
    disk,             \* the CSV files of the directory: a sequence of files
    run               \* what the function of csv_to_pdf.py did: loaded,
                      \* filas_datos of each load after the sort; splits,
                      \* the arguments and the partes of each split; pdfs,
                      \* the PDFs written, in order

parserVars == <<value, amount, create_time, order_date, fecha_str, reparsed>>

rowVars == <<orders, final_rows>>

cnfVars ==
    <<pages, END_DATE, page_no, idx, processed_orders, stop_early,
      all_orders, seen_order_nos, examined>>

aliVars == <<items, item_no, datos_csv, totales_por_mes, csv_rows>>

fnVars ==
    <<texto_fecha, fecha_ret, products_in, hoodie_name, nombre, concepto,
      order_in, paid>>

pdfVars == <<disk, run>>

vars == <<pc, parserVars, rowVars, cnfVars, aliVars, fnVars, pdfVars>>

(***************************************************************************)
(* Bounds of the model.                                                    *)
(***************************************************************************)
MaxNumLen == 6    \* longest text over digits and separators
MaxLen == 4       \* longest text over the mixed alphabet
MaxOrders == 3    \* longest list of orders
FracDigits == 2   \* fraction digits kept when amounts are added

(***************************************************************************)
(* Characters and floats.                                                  *)
(***************************************************************************)
Digits == {"0", "1", "2", "3", "4", "5", "6", "7", "8", "9"}

DigitVal(c) ==
    CASE c = "0" -> 0 [] c = "1" -> 1 [] c = "2" -> 2 [] c = "3" -> 3
      [] c = "4" -> 4 [] c = "5" -> 5 [] c = "6" -> 6 [] c = "7" -> 7
      [] c = "8" -> 8 [] c = "9" -> 9

RECURSIVE DigitsVal(_)
DigitsVal(s) ==
    IF s = <<>> THEN 0
    ELSE 10 * DigitsVal(SubSeq(s, 1, Len(s) - 1)) + DigitVal(s[Len(s)])

RECURSIVE StripZeros(_)
StripZeros(s) ==
    IF s # <<>> /\ s[Len(s)] = "0" THEN StripZeros(SubSeq(s, 1, Len(s) - 1))
    ELSE s

Zero == [sign |-> 1, int |-> 0, frac |-> <<>>]

\* The float with integer part i and fraction digits f, negative when neg.
Float(neg, i, f) ==
    LET fr == StripZeros(f) IN
    IF i = 0 /\ fr = <<>> THEN Zero
    ELSE [sign |-> IF neg THEN -1 ELSE 1, int |-> i, frac |-> fr]

Neg(v) == IF v = Zero THEN Zero ELSE [v EXCEPT !.sign = -v.sign]

Count(s, c) == Cardinality({i \in 1..Len(s) : s[i] = c})

Remove(s, c) == SelectSeq(s, LAMBDA x : x # c)

Replace(s, c, d) == [i \in 1..Len(s) |-> IF s[i] = c THEN d ELSE s[i]]

\* str.rfind: the last index of c in s, 0 when absent (Python: -1).
RFind(s, c) ==
    IF Count(s, c) = 0 THEN 0
    ELSE CHOOSE i \in 1..Len(s) :
            s[i] = c /\ \A j \in (i + 1)..Len(s) : s[j] # c

\* A function's outcome: a returned value or a raised exception.
Return(v) == [exc |-> "none", val |-> v]
Raise(e) == [exc |-> e, val |-> Zero]

(***************************************************************************)
(* float(str) on the texts the two parsers hand it: an optional leading    *)
(* minus, then digits with at most one dot and at least one digit;         *)
(* anything else is a ValueError.                                          *)
(***************************************************************************)
PyFloat(s) ==
    LET neg == s # <<>> /\ s[1] = "-"
        body == IF neg THEN Tail(s) ELSE s
        dot == RFind(body, ".")
        ip == IF dot = 0 THEN body ELSE SubSeq(body, 1, dot - 1)
        fp == IF dot = 0 THEN <<>> ELSE SubSeq(body, dot + 1, Len(body))
    IN  IF /\ \A i \in 1..Len(body) : body[i] \in Digits \cup {"."}
           /\ Count(body, ".") <= 1
           /\ \E i \in 1..Len(body) : body[i] \in Digits
        THEN Return(Float(neg, DigitsVal(ip), fp))
        ELSE Raise("ValueError")

(***************************************************************************)
(* parse_money                                                             *)
(***************************************************************************)
\* None, as an argument: a value that is no text.
None == <<"None">>

\* re.search(r"[-]?\d[\d.,]*", value): the leftmost match, greedy.
MatchStarts(s) ==
    {i \in 1..Len(s) :
        \/ s[i] \in Digits
        \/ s[i] = "-" /\ i < Len(s) /\ s[i + 1] \in Digits}

MatchStart(s) ==
    CHOOSE i \in MatchStarts(s) : \A j \in MatchStarts(s) : i <= j

MatchEnd(s) ==
    LET st == MatchStart(s)
        d == IF s[st] = "-" THEN st + 1 ELSE st
    IN  CHOOSE j \in d..Len(s) :
            /\ \A k \in d..j : s[k] \in Digits \cup {".", ","}
            /\ j = Len(s) \/ s[j + 1] \notin Digits \cup {".", ","}

NumericRun(s) == SubSeq(s, MatchStart(s), MatchEnd(s))

\* len(parts[-1]) for parts = num.split(","), num holding a comma.
LastGroupLen(num) == Len(num) - RFind(num, ",")

\* Normalize with the comparison of the two rfind turned round.
NormalizeSwapped(num) ==
    LET has_comma == Count(num, ",") > 0
        has_dot == Count(num, ".") > 0
    IN  IF has_comma /\ has_dot THEN
            IF RFind(num, ",") < RFind(num, ".")
            THEN Replace(Remove(num, "."), ",", ".")
            ELSE Remove(num, ",")
        ELSE IF has_comma /\ ~has_dot THEN
            IF LastGroupLen(num) = 2
            THEN Replace(Remove(num, "."), ",", ".")
            ELSE Remove(num, ",")
        ELSE Remove(num, ",")

\* Normalize with the comma taken as decimal whatever the final group.
NormalizeAnyGroup(num) ==
    LET has_comma == Count(num, ",") > 0
        has_dot == Count(num, ".") > 0
    IN  IF has_comma /\ has_dot THEN
            IF RFind(num, ",") > RFind(num, ".")
            THEN Replace(Remove(num, "."), ",", ".")
            ELSE Remove(num, ",")
        ELSE IF has_comma /\ ~has_dot THEN
            Replace(Remove(num, "."), ",", ".")
        ELSE Remove(num, ",")

\* The separator heuristic: the text float() is given.
Normalize(num) ==
    LET has_comma == Count(num, ",") > 0
        has_dot == Count(num, ".") > 0
    IN  IF has_comma /\ has_dot THEN
            IF RFind(num, ",") > RFind(num, ".")
            THEN Replace(Remove(num, "."), ",", ".")
            ELSE Remove(num, ",")
        ELSE IF has_comma /\ ~has_dot THEN
            IF LastGroupLen(num) = 2
            THEN Replace(Remove(num, "."), ",", ".")
            ELSE Remove(num, ",")
        ELSE Remove(num, ",")

\* float(num) with no try around it.
FloatUnguarded(num) == PyFloat(num)

\* try: return float(num) / except ValueError: return 0.0
FloatOrZero(num) ==
    LET f == PyFloat(num) IN
    IF f.exc = "ValueError" THEN Return(Zero) ELSE f

parse_money(v) ==
    IF v = None \/ v = <<>> THEN Return(Zero)
    ELSE IF MatchStarts(v) = {} THEN Return(Zero)
    ELSE FloatOrZero(Normalize(NumericRun(v)))

(***************************************************************************)
(* limpiar_precio                                                          *)
(***************************************************************************)
Whitespace == {" ", "\t", "\n"}

\* The character class without \s.
CurrencyNoSpace == {"<euro>", "$", "<pound>", "U", "S", "C", "H", "F", "z", "<l-stroke>"}

\* The character class of re.sub over the currency signs, the letters U S C H F z l-stroke and whitespace.
CurrencyChars == {"<euro>", "$", "<pound>", "U", "S", "C", "H", "F", "z", "<l-stroke>"} \cup Whitespace

\* try: return float(texto) / except ValueError: return 0.0
PrecioOrZero(texto) ==
    LET f == PyFloat(texto) IN
    IF f.exc = "ValueError" THEN Return(Zero) ELSE f

limpiar_precio(texto_precio) ==
    LET texto == Remove(texto_precio, "Total:")
        sin_moneda == SelectSeq(texto, LAMBDA c : c \notin CurrencyChars)
        con_punto == Replace(sin_moneda, ",", ".")
    IN  PrecioOrZero(con_punto)


(***************************************************************************)
(* parse_create_time_to_date                                               *)
(*                                                                         *)
(* A date is the record [year, month, day]; NoDate stands for None.  The   *)
(* label "Create Time:" is one element of a text, like "Total:".           *)
(***************************************************************************)
NoDate == [year |-> 0, month |-> 0, day |-> 0]

IsLeap(y) == (y % 4 = 0 /\ y % 100 # 0) \/ y % 400 = 0

DaysInMonth(y, m) ==
    IF m = 2 THEN (IF IsLeap(y) THEN 29 ELSE 28)
    ELSE IF m \in {4, 6, 9, 11} THEN 30 ELSE 31

\* datetime(y, m, d) is a date: anything else is a ValueError.
ValidDate(y, m, d) ==
    y >= 1 /\ m \in 1..12 /\ d >= 1 /\ d <= DaysInMonth(y, m)

\* str.split(c) on a text.
RECURSIVE Split(_, _)
Split(s, c) ==
    IF Count(s, c) = 0 THEN <<s>>
    ELSE LET i == CHOOSE k \in 1..Len(s) :
                     s[k] = c /\ \A j \in 1..(k - 1) : s[j] # c
         IN  <<SubSeq(s, 1, i - 1)>> \o Split(SubSeq(s, i + 1, Len(s)), c)

\* str.strip() on a text.
RECURSIVE Strip(_)
Strip(s) ==
    IF s # <<>> /\ s[1] \in Whitespace THEN Strip(Tail(s))
    ELSE IF s # <<>> /\ s[Len(s)] \in Whitespace
    THEN Strip(SubSeq(s, 1, Len(s) - 1))
    ELSE s

\* re.sub(r"\s+", " ", s): every run of whitespace becomes one space.
RECURSIVE CollapseSpaces(_)
CollapseSpaces(s) ==
    IF s = <<>> THEN <<>>
    ELSE IF s[1] \notin Whitespace THEN <<s[1]>> \o CollapseSpaces(Tail(s))
    ELSE IF Len(s) > 1 /\ s[2] \in Whitespace THEN CollapseSpaces(Tail(s))
    ELSE <<" ">> \o CollapseSpaces(Tail(s))

\* A candidate format: the order of the date fields, their separator and
\* the number of time fields (0: none, 2: %H:%M, 3: %H:%M:%S).
Fmt(o, sp, n) == [order |-> o, sep |-> sp, ntime |-> n]

\* The candidate list with the month-first slash formats before the
\* day-first ones.
fmtsMonthFirst ==
    << Fmt("dmy", "-", 0), Fmt("dmy", "-", 2), Fmt("dmy", "-", 3),
       Fmt("ymd", "-", 0), Fmt("ymd", "-", 2), Fmt("ymd", "-", 3),
       Fmt("mdy", "/", 0), Fmt("mdy", "/", 2), Fmt("mdy", "/", 3),
       Fmt("dmy", "/", 0), Fmt("dmy", "/", 2), Fmt("dmy", "/", 3) >>

fmts ==
    << Fmt("dmy", "-", 0), Fmt("dmy", "-", 2), Fmt("dmy", "-", 3),
       Fmt("ymd", "-", 0), Fmt("ymd", "-", 2), Fmt("ymd", "-", 3),
       Fmt("dmy", "/", 0), Fmt("dmy", "/", 2), Fmt("dmy", "/", 3),
       Fmt("mdy", "/", 0), Fmt("mdy", "/", 2), Fmt("mdy", "/", 3) >>

AllDigits(f) == f # <<>> /\ \A i \in 1..Len(f) : f[i] \in Digits

\* Whether field f matches the directive: %d, %m, %Y, %H, %M, %S (%S
\* matches 60 and 61 too, which datetime() then refuses: a ValueError).
FieldOK(directive, f) ==
    /\ AllDigits(f)
    /\ CASE directive = "d" -> Len(f) <= 2 /\ DigitsVal(f) \in 1..31
         [] directive = "m" -> Len(f) <= 2 /\ DigitsVal(f) \in 1..12
         [] directive = "Y" -> Len(f) = 4
         [] directive = "H" -> Len(f) <= 2 /\ DigitsVal(f) <= 23
         [] directive = "M" -> Len(f) <= 2 /\ DigitsVal(f) <= 59
         [] directive = "S" -> Len(f) <= 2 /\ DigitsVal(f) <= 59

Directives(order) ==
    CASE order = "dmy" -> <<"d", "m", "Y">>
      [] order = "ymd" -> <<"Y", "m", "d">>
      [] order = "mdy" -> <<"m", "d", "Y">>

FieldOf(order, directive) ==
    CHOOSE i \in 1..3 : Directives(order)[i] = directive

\* datetime.strptime(s, fmt).date(): the whole of s must match fmt and name
\* a calendar date; [ok |-> FALSE] is a ValueError.
strptime(s, fmt) ==
    LET parts == Split(s, " ")
        df == Split(parts[1], fmt.sep)
        tf == IF Len(parts) = 2 THEN Split(parts[2], ":") ELSE <<>>
        y == DigitsVal(df[FieldOf(fmt.order, "Y")])
        m == DigitsVal(df[FieldOf(fmt.order, "m")])
        d == DigitsVal(df[FieldOf(fmt.order, "d")])
    IN  IF /\ Len(parts) = (IF fmt.ntime = 0 THEN 1 ELSE 2)
           /\ Len(df) = 3
           /\ \A i \in 1..3 : FieldOK(Directives(fmt.order)[i], df[i])
           /\ Len(tf) = fmt.ntime
           /\ \A i \in 1..Len(tf) : FieldOK(<<"H", "M", "S">>[i], tf[i])
           /\ ValidDate(y, m, d)
        THEN [ok |-> TRUE, date |-> [year |-> y, month |-> m, day |-> d]]
        ELSE [ok |-> FALSE, date |-> NoDate]

\* s.strip(), .replace("Create Time:", "").strip(), re.sub(r"\s+", " ", s)
CleanCreateTime(raw) ==
    CollapseSpaces(Strip(Remove(Strip(raw), "Create Time:")))

\* for fmt in fmts: try: return strptime(s, fmt).date() / except
\* ValueError: continue; then return None.  i is the place in fmts.
RECURSIVE FirstMatch(_, _)
FirstMatch(s, i) ==
    IF i > Len(fmts) THEN NoDate
    ELSE LET r == strptime(s, fmts[i])
         IN  IF r.ok THEN r.date ELSE FirstMatch(s, i + 1)

parse_create_time_to_date(create_time_raw) ==
    IF create_time_raw = None \/ create_time_raw = <<>> THEN NoDate
    ELSE FirstMatch(CleanCreateTime(create_time_raw), 1)

(***************************************************************************)
(* save_expenses_to_csv: the date cell, fecha.strftime("%d-%m-%Y").        *)
(***************************************************************************)
DigitChar(n) ==
    CASE n = 0 -> "0" [] n = 1 -> "1" [] n = 2 -> "2" [] n = 3 -> "3"
      [] n = 4 -> "4" [] n = 5 -> "5" [] n = 6 -> "6" [] n = 7 -> "7"
      [] n = 8 -> "8" [] n = 9 -> "9"

\* The decimal digits of n, without padding.
RECURSIVE NatText(_)
NatText(n) ==
    IF n < 10 THEN <<DigitChar(n)>>
    ELSE NatText(n \div 10) \o <<DigitChar(n % 10)>>

\* %d and %m: two digits, zero-padded.
Pad2(n) == <<DigitChar(n \div 10), DigitChar(n % 10)>>

\* The date cell written as %m-%d-%Y.
FechaStrMonthFirst(fecha) ==
    Pad2(fecha.month) \o <<"-">> \o Pad2(fecha.day) \o <<"-">>
        \o NatText(fecha.year)

FechaStr(fecha) ==
    IF fecha = NoDate THEN <<>>
    ELSE Pad2(fecha.day) \o <<"-">> \o Pad2(fecha.month) \o <<"-">>
            \o NatText(fecha.year)

(***************************************************************************)
(* Sums of floats.  The amounts of the model have at most FracDigits       *)
(* fraction digits, and on those the sum is taken exactly (the code adds   *)
(* binary floats and rounds to 2 digits when it writes them).              *)
(***************************************************************************)
RECURSIVE Pow10(_)
Pow10(n) == IF n = 0 THEN 1 ELSE 10 * Pow10(n - 1)

RECURSIVE PadRight(_, _)
PadRight(f, n) == IF Len(f) >= n THEN f ELSE PadRight(f \o <<"0">>, n)

RECURSIVE PadLeft(_, _)
PadLeft(f, n) == IF Len(f) >= n THEN f ELSE PadLeft(<<"0">> \o f, n)

ToScaled(v) ==
    v.sign * (v.int * Pow10(FracDigits)
                + DigitsVal(PadRight(v.frac, FracDigits)))

FromScaled(n) ==
    LET a == IF n < 0 THEN -n ELSE n IN
    Float(n < 0, a \div Pow10(FracDigits),
          PadLeft(NatText(a % Pow10(FracDigits)), FracDigits))

FloatAdd(a, b) == FromScaled(ToScaled(a) + ToScaled(b))

(***************************************************************************)
(* pick_hoodie_name, compute_paid_amount, build_expense_rows               *)
(*                                                                         *)
(* An order is the dict extract_order_basic_info returns, with the         *)
(* shipping_cost process_page_orders adds; a missing key reads as "".      *)
(***************************************************************************)
UpperCase ==
    <<"A", "B", "C", "D", "E", "F", "G", "H", "I", "J", "K", "L", "M",
      "N", "O", "P", "Q", "R", "S", "T", "U", "V", "W", "X", "Y", "Z">>

LowerCase ==
    <<"a", "b", "c", "d", "e", "f", "g", "h", "i", "j", "k", "l", "m",
      "n", "o", "p", "q", "r", "s", "t", "u", "v", "w", "x", "y", "z">>

\* str.lower() on a text.
Lower(s) ==
    [i \in 1..Len(s) |->
        IF \E k \in 1..26 : UpperCase[k] = s[i]
        THEN LowerCase[CHOOSE k \in 1..26 : UpperCase[k] = s[i]]
        ELSE s[i]]

\* k in s, for texts.
Contains(s, k) ==
    \E i \in 1..(Len(s) - Len(k) + 1) : SubSeq(s, i, i + Len(k) - 1) = k

keywords ==
    << <<"h", "o", "o", "d", "i", "e">>,
       <<"s", "u", "d", "a", "d", "e", "r", "a">>,
       <<"s", "w", "e", "a", "t", "s", "h", "i", "r", "t">>,
       <<"p", "u", "l", "l", "o", "v", "e", "r">>,
       <<"h", "o", "o", "d">> >>

SinProducto ==
    <<"s", "i", "n", " ", "p", "r", "o", "d", "u", "c", "t", "o">>

\* pick_hoodie_name without its first loop: the first product with a name.
PickFirstNamed(products) ==
    LET name(i) == Strip(products[i].name)
        named == {i \in 1..Len(products) : name(i) # <<>>}
    IN  IF named = {} THEN SinProducto
        ELSE name(CHOOSE i \in named : \A j \in named : i <= j)

pick_hoodie_name(products) ==
    LET name(i) == Strip(products[i].name)
        hits == {i \in 1..Len(products) :
                    /\ name(i) # <<>>
                    /\ \E k \in 1..Len(keywords) :
                          Contains(Lower(name(i)), keywords[k])}
        named == {i \in 1..Len(products) : name(i) # <<>>}
        first(S) == CHOOSE i \in S : \A j \in S : i <= j
    IN  IF products = <<>> THEN SinProducto
        ELSE IF hits # {} THEN name(first(hits))
        ELSE IF named # {} THEN name(first(named))
        ELSE SinProducto

\* compute_paid_amount passing over a field that parses to zero.
ComputePaidSkippingZero(order) ==
    LET sum == FloatAdd(FloatAdd(FloatAdd(
                    parse_money(order.total_product_amount).val,
                    parse_money(order.domestic_shipping).val),
                    parse_money(order.value_added_services).val),
                    parse_money(order.shipping_cost).val)
    IN  IF parse_money(order.actual_payment).val # Zero
        THEN parse_money(order.actual_payment).val
        ELSE IF parse_money(order.total_amount).val # Zero
        THEN parse_money(order.total_amount).val
        ELSE sum

compute_paid_amount(order) ==
    IF order.actual_payment # <<>>
    THEN parse_money(order.actual_payment).val
    ELSE IF order.total_amount # <<>>
    THEN parse_money(order.total_amount).val
    ELSE FloatAdd(FloatAdd(FloatAdd(
            parse_money(order.total_product_amount).val,
            parse_money(order.domestic_shipping).val),
            parse_money(order.value_added_services).val),
            parse_money(order.shipping_cost).val)

SUPPLIER_NAME == "Cnfans"

PAYMENT_METHOD_FORCED == "tarjeta"

\* The row of one order (the columns "Fecha del gasto", "Proveedor",
\* "Importe pagado", "Concepto", "N. de pedido", "Metodo de pago").
ExpenseRow(o) ==
    [fecha |-> parse_create_time_to_date(o.create_time),
     proveedor |-> SUPPLIER_NAME,
     importe |-> compute_paid_amount(o),
     concepto |-> <<"pedido ">> \o pick_hoodie_name(o.products),
     pedido |-> o.order_no,
     metodo |-> PAYMENT_METHOD_FORCED]

\* The row "TOTAL MES y-mm": its date cell is "" (NoDate here).
TotalRow(ym, month_sum) ==
    [fecha |-> NoDate,
     proveedor |-> "",
     importe |-> month_sum,
     concepto |-> <<"TOTAL MES ">> \o NatText(ym[1]) \o <<"-">> \o Pad2(ym[2]),
     pedido |-> <<>>,
     metodo |-> ""]

\* The first loop of build_expense_rows leaving at the first order without
\* a date (break for continue).
RECURSIVE DetailRowsUntilUndated(_)
DetailRowsUntilUndated(os) ==
    IF os = <<>> THEN <<>>
    ELSE LET r == ExpenseRow(Head(os))
         IN  IF r.fecha = NoDate THEN <<>>
             ELSE <<r>> \o DetailRowsUntilUndated(Tail(os))

\* The first loop: one row per order whose date parses.
RECURSIVE DetailRows(_)
DetailRows(os) ==
    IF os = <<>> THEN <<>>
    ELSE LET r == ExpenseRow(Head(os))
         IN  IF r.fecha = NoDate THEN DetailRows(Tail(os))
             ELSE <<r>> \o DetailRows(Tail(os))

DateLT(a, b) ==
    \/ a.year < b.year
    \/ a.year = b.year /\ a.month < b.month
    \/ a.year = b.year /\ a.month = b.month /\ a.day < b.day

\* Where a stable sort puts row r among the sorted rows before it: after
\* every row that is not later than r.
RECURSIVE InsertAfterEquals(_, _)
InsertAfterEquals(sorted, r) ==
    IF sorted = <<>> THEN <<r>>
    ELSE IF DateLT(r.fecha, Head(sorted).fecha) THEN <<r>> \o sorted
    ELSE <<Head(sorted)>> \o InsertAfterEquals(Tail(sorted), r)

\* A sort that puts a row before the rows of the same date.
RECURSIVE InsertBeforeEquals(_, _)
InsertBeforeEquals(sorted, r) ==
    IF sorted = <<>> THEN <<r>>
    ELSE IF ~DateLT(Head(sorted).fecha, r.fecha) THEN <<r>> \o sorted
    ELSE <<Head(sorted)>> \o InsertBeforeEquals(Tail(sorted), r)

RECURSIVE SortUnstable(_)
SortUnstable(rows) ==
    IF rows = <<>> THEN <<>>
    ELSE InsertBeforeEquals(SortUnstable(SubSeq(rows, 1, Len(rows) - 1)),
                            rows[Len(rows)])

\* rows.sort(key=lambda r: r["Fecha del gasto"]): list.sort is stable.
RECURSIVE SortByFecha(_)
SortByFecha(rows) ==
    IF rows = <<>> THEN <<>>
    ELSE InsertAfterEquals(SortByFecha(SubSeq(rows, 1, Len(rows) - 1)),
                           rows[Len(rows)])

NoMonth == <<0, 0>>

\* The second loop with the month total never set back to 0.0.
RECURSIVE InsertMonthTotalsNoReset(_, _, _, _)
InsertMonthTotalsNoReset(rows, current_month, month_sum, acc) ==
    IF rows = <<>> THEN
        IF current_month # NoMonth
        THEN Append(acc, TotalRow(current_month, month_sum))
        ELSE acc
    ELSE
        LET r == Head(rows)
            ym == <<r.fecha.year, r.fecha.month>>
            cur == IF current_month = NoMonth THEN ym ELSE current_month
        IN  IF ym # cur
            THEN InsertMonthTotalsNoReset(Tail(rows), ym,
                    FloatAdd(month_sum, r.importe),
                    Append(Append(acc, TotalRow(cur, month_sum)), r))
            ELSE InsertMonthTotalsNoReset(Tail(rows), cur,
                    FloatAdd(month_sum, r.importe), Append(acc, r))

\* The second loop: the rows still to go, current_month (NoMonth: None),
\* month_sum and the final_rows built so far.
RECURSIVE InsertMonthTotals(_, _, _, _)
InsertMonthTotals(rows, current_month, month_sum, acc) ==
    IF rows = <<>> THEN
        IF current_month # NoMonth
        THEN Append(acc, TotalRow(current_month, month_sum))
        ELSE acc
    ELSE
        LET r == Head(rows)
            ym == <<r.fecha.year, r.fecha.month>>
            cur == IF current_month = NoMonth THEN ym ELSE current_month
        IN  IF ym # cur
            THEN InsertMonthTotals(Tail(rows), ym,
                    FloatAdd(Zero, r.importe),
                    Append(Append(acc, TotalRow(cur, month_sum)), r))
            ELSE InsertMonthTotals(Tail(rows), cur,
                    FloatAdd(month_sum, r.importe), Append(acc, r))

build_expense_rows(os) ==
    InsertMonthTotals(SortByFecha(DetailRows(os)), NoMonth, Zero, <<>>)

(***************************************************************************)
(* procesar_fecha (aliexpress_scraper.py)                                  *)
(*                                                                         *)
(* The label "Pedido efectuado el:" is one element of a header text: it    *)
(* holds no digit, so no match of the pattern begins inside it.  The two   *)
(* sentinel strings are one element each.                                  *)
(***************************************************************************)
MESES ==
    (<<"e", "n", "e">> :> <<"0", "1">>) @@ (<<"f", "e", "b">> :> <<"0", "2">>)
    @@ (<<"m", "a", "r">> :> <<"0", "3">>) @@ (<<"a", "b", "r">> :> <<"0", "4">>)
    @@ (<<"m", "a", "y">> :> <<"0", "5">>) @@ (<<"j", "u", "n">> :> <<"0", "6">>)
    @@ (<<"j", "u", "l">> :> <<"0", "7">>) @@ (<<"a", "g", "o">> :> <<"0", "8">>)
    @@ (<<"s", "e", "p">> :> <<"0", "9">>) @@ (<<"o", "c", "t">> :> <<"1", "0">>)
    @@ (<<"n", "o", "v">> :> <<"1", "1">>) @@ (<<"d", "i", "c">> :> <<"1", "2">>)

\* MESES.get(mes_txt, '01')
MesNum(mes_txt) ==
    IF mes_txt \in DOMAIN MESES THEN MESES[mes_txt] ELSE <<"0", "1">>

LowerLetters == {LowerCase[k] : k \in 1..26}

\* The end of the longest run of characters of S that begins at place p of
\* s (p - 1 when s[p] is not in S).
RECURSIVE RunEnd(_, _, _)
RunEnd(s, p, S) ==
    IF p <= Len(s) /\ s[p] \in S THEN RunEnd(s, p + 1, S) ELSE p - 1

\* A match of (\d+)\s+([a-z]{3}),\s+(\d{4}) that begins at place p of s:
\* the digits and the whitespace are taken to the end of their runs, for
\* what follows them is neither.
FechaMatchAt(s, p) ==
    LET e == RunEnd(s, p, Digits)
        w == RunEnd(s, e + 1, Whitespace)
        x == RunEnd(s, w + 5, Whitespace)
    IN  IF /\ e >= p
           /\ w >= e + 1
           /\ w + 4 <= Len(s)
           /\ \A k \in (w + 1)..(w + 3) : s[k] \in LowerLetters
           /\ s[w + 4] = ","
           /\ x >= w + 5
           /\ x + 4 <= Len(s)
           /\ \A k \in (x + 1)..(x + 4) : s[k] \in Digits
        THEN [ok |-> TRUE, dia |-> SubSeq(s, p, e),
              mes_txt |-> SubSeq(s, w + 1, w + 3),
              anio |-> SubSeq(s, x + 1, x + 4)]
        ELSE [ok |-> FALSE, dia |-> <<>>, mes_txt |-> <<>>, anio |-> <<>>]

FechaDesconocida ==
    [fecha_str |-> <<"Fecha desconocida">>, mes_anio |-> <<"Desconocido">>]

\* re.search on texto_fecha.lower(): the leftmost match.  strptime checks
\* fecha_str and its ValueError is caught nowhere.
procesar_fecha(texto) ==
    LET s == Lower(texto)
        starts == {p \in 1..Len(s) : FechaMatchAt(s, p).ok}
    IN  IF starts = {} THEN Return(FechaDesconocida)
        ELSE LET m == FechaMatchAt(s, CHOOSE p \in starts :
                                          \A q \in starts : p <= q)
                 mes_num == MesNum(m.mes_txt)
                 str == m.dia \o <<"/">> \o mes_num \o <<"/">> \o m.anio
             IN  IF strptime(str, Fmt("dmy", "/", 0)).ok
                 THEN Return([fecha_str |-> str,
                              mes_anio |-> mes_num \o <<"-">> \o m.anio])
                 ELSE Raise("ValueError")

(***************************************************************************)
(* main (aliexpress_scraper.py): the loop over the order blocks and the    *)
(* writing of the CSV.                                                     *)
(*                                                                         *)
(* An order block is [header, nombre, precio]: the text of its header,     *)
(* the text of the span of its product name and the text of its price      *)
(* element; None stands for an element the block does not have.  The       *)
(* labels "No de pedido:" (written with the numero sign in the page) and   *)
(* "Copiar" are one element each.                                          *)
(***************************************************************************)
LabelMax == 80

LabelKeep == 77

PedidoPrefix == <<"P", "e", "d", "i", "d", "o", ":", " ">>

SinNombre ==
    <<"P", "e", "d", "i", "d", "o", " ", "A", "l", "i", "E", "x", "p", "r",
      "e", "s", "s", " ", "(", "S", "i", "n", " ", "n", "o", "m", "b", "r",
      "e", " ", "d", "e", "t", "e", "c", "t", "a", "d", "o", ")">>

\* The Concepto of a block: "Pedido: " and the name, cut to 77 characters
\* and "..." when longer than 80.
AliConcepto(nombre_span) ==
    IF nombre_span = None THEN SinNombre
    ELSE LET c == PedidoPrefix \o Strip(nombre_span)
         IN  IF Len(c) > LabelMax
             THEN SubSeq(c, 1, LabelKeep) \o <<".", ".", ".">>
             ELSE c

\* totales_por_mes[mes_anio] += importe, a new key being put last.
AddToMonth(totales, mes_anio, importe) ==
    IF \E k \in 1..Len(totales) : totales[k].mes = mes_anio
    THEN [k \in 1..Len(totales) |->
            IF totales[k].mes = mes_anio
            THEN [totales[k] EXCEPT !.total = FloatAdd(@, importe)]
            ELSE totales[k]]
    ELSE Append(totales, [mes |-> mes_anio, total |-> FloatAdd(Zero, importe)])

\* A row of the CSV.  kind tells the rows apart: "detail" (an order),
\* "empty" (writerow({})), "header" (RESUMEN MENSUAL, with '---' in the
\* next two cells) and "total" (Total <mes>).
AliRow(kind, fecha_cell, importe, concepto_cell, ref) ==
    [kind |-> kind,
     fecha |-> fecha_cell,
     proveedor |-> IF kind = "detail" THEN "AliExpress Europa S.L."
                   ELSE IF kind = "header" THEN "---" ELSE "",
     importe |-> importe,
     concepto |-> concepto_cell,
     referencia |-> ref,
     metodo |-> IF kind = "detail" THEN "Tarjeta" ELSE ""]

\* One turn of the loop over the blocks, for the block item: the row it
\* appends and its month key, or the exception of procesar_fecha.
AliItem(item) ==
    LET texto_header == IF item.header = None THEN <<>> ELSE item.header
        parts == Split(texto_header, "|")
        fecha_bruta == parts[1]
        pedido_bruto == IF Len(parts) > 1 THEN parts[2] ELSE <<>>
        f == procesar_fecha(fecha_bruta)
        ref_pedido ==
            Strip(Remove(Remove(pedido_bruto, "No de pedido:"), "Copiar"))
        importe == IF item.precio = None THEN Zero
                   ELSE limpiar_precio(Strip(item.precio)).val
    IN  IF f.exc # "none" THEN [exc |-> f.exc, mes_anio |-> <<>>,
                                importe |-> Zero, row |-> <<>>]
        ELSE [exc |-> "none", mes_anio |-> f.val.mes_anio,
              importe |-> importe,
              row |-> AliRow("detail", f.val.fecha_str, importe,
                             AliConcepto(item.nombre), ref_pedido)]

GastoTotalDelMes == <<"Gasto total del mes">>

\* The rows of the file: the rows of the orders, an empty row, the row
\* RESUMEN MENSUAL and one row "Total <mes>" for each key of
\* totales_por_mes.
AliCsvRows(datos, totales) ==
    datos
    \o << AliRow("empty", <<>>, Zero, <<>>, <<>>),
          AliRow("header", <<"RESUMEN MENSUAL">>, Zero, <<>>, <<>>) >>
    \o [k \in 1..Len(totales) |->
          AliRow("total", <<"Total ">> \o totales[k].mes, totales[k].total,
                 GastoTotalDelMes, <<>>)]

(***************************************************************************)
(* The cells of the two CSV files.  A cell is a text; the words the model  *)
(* writes as one element (such as "TOTAL MES ") are spelled out by         *)
(* SpellOut where the characters matter.  csv.DictWriter and csv.reader    *)
(* with the same delimiter give back the cells that were written.          *)
(***************************************************************************)
Spell(c) ==
    CASE c = "---" ->
            <<"-", "-", "-">>
      [] c = "TOTAL MES " ->
            <<"T", "O", "T", "A", "L", " ", "M", "E", "S", " ">>
      [] c = "RESUMEN MENSUAL" ->
            <<"R", "E", "S", "U", "M", "E", "N", " ", "M", "E", "N", "S", "U",
            "A", "L">>
      [] c = "Total " ->
            <<"T", "o", "t", "a", "l", " ">>
      [] c = "Gasto total del mes" ->
            <<"G", "a", "s", "t", "o", " ", "t", "o", "t", "a", "l", " ", "d",
            "e", "l", " ", "m", "e", "s">>
      [] c = "Fecha desconocida" ->
            <<"F", "e", "c", "h", "a", " ", "d", "e", "s", "c", "o", "n", "o",
            "c", "i", "d", "a">>
      [] c = "Desconocido" ->
            <<"D", "e", "s", "c", "o", "n", "o", "c", "i", "d", "o">>
      [] c = "pedido " ->
            <<"p", "e", "d", "i", "d", "o", " ">>
      [] c = "sin producto" ->
            <<"s", "i", "n", " ", "p", "r", "o", "d", "u", "c", "t", "o">>
      [] c = "Cnfans" ->
            <<"C", "n", "f", "a", "n", "s">>
      [] c = "tarjeta" ->
            <<"t", "a", "r", "j", "e", "t", "a">>
      [] c = "Tarjeta" ->
            <<"T", "a", "r", "j", "e", "t", "a">>
      [] c = "AliExpress Europa S.L." ->
            <<"A", "l", "i", "E", "x", "p", "r", "e", "s", "s", " ", "E", "u",
            "r", "o", "p", "a", " ", "S", ".", "L", ".">>
      [] c = "Fecha del gasto" ->
            <<"F", "e", "c", "h", "a", " ", "d", "e", "l", " ", "g", "a", "s",
            "t", "o">>
      [] c = "Proveedor" ->
            <<"P", "r", "o", "v", "e", "e", "d", "o", "r">>
      [] c = "Importe pagado" ->
            <<"I", "m", "p", "o", "r", "t", "e", " ", "p", "a", "g", "a", "d",
            "o">>
      [] c = "Concepto" ->
            <<"C", "o", "n", "c", "e", "p", "t", "o">>
      [] c = "N. de pedido" ->
            <<"N", ".", " ", "d", "e", " ", "p", "e", "d", "i", "d", "o">>
      [] c = "Metodo de pago" ->
            <<"M", "e", "t", "o", "d", "o", " ", "d", "e", " ", "p", "a", "g",
            "o">>
      [] c = "Fecha" ->
            <<"F", "e", "c", "h", "a">>
      [] c = "Importe" ->
            <<"I", "m", "p", "o", "r", "t", "e">>
      [] c = "Referencia" ->
            <<"R", "e", "f", "e", "r", "e", "n", "c", "i", "a">>
      [] c = "Metodo" ->
            <<"M", "e", "t", "o", "d", "o">>
      [] OTHER -> <<c>>

RECURSIVE SpellOut(_)
SpellOut(s) ==
    IF s = <<>> THEN <<>> ELSE Spell(Head(s)) \o SpellOut(Tail(s))

\* str.upper() on a text.
Upper(s) ==
    LET t == SpellOut(s)
    IN  [i \in 1..Len(t) |->
            IF \E k \in 1..26 : LowerCase[k] = t[i]
            THEN UpperCase[CHOOSE k \in 1..26 : LowerCase[k] = t[i]]
            ELSE t[i]]

\* The cell of a word of the program: '' is the empty text.
Cell(word) == IF word = "" THEN <<>> ELSE <<word>>

\* str(x) of a float x that is 0 or has 1e-4 <= |x| < 1e16: the integer
\* part, a dot and the fraction digits ("0" when there are none).
PyStr(v) ==
    (IF v.sign = -1 THEN <<"-">> ELSE <<>>)
        \o NatText(v.int) \o <<".">>
        \o (IF v.frac = <<>> THEN <<"0">> ELSE v.frac)

\* f"{x:.2f}": x rounded to two fraction digits.  A float that lies
\* halfway in decimal is rounded by the double it really is; here it goes
\* to the even neighbour.
Format2f(v) ==
    LET k == IF Len(v.frac) > 2 THEN Len(v.frac) ELSE 2
        n == v.int * Pow10(k) + DigitsVal(PadRight(v.frac, k))
        unit == Pow10(k - 2)
        q == n \div unit
        rem == n % unit
        up == 2 * rem > unit \/ (2 * rem = unit /\ q % 2 = 1)
        r == IF up THEN q + 1 ELSE q
    IN  (IF v.sign = -1 THEN <<"-">> ELSE <<>>)
            \o NatText(r \div 100) \o <<".">> \o Pad2(r % 100)

\* The "," option of the format: a comma before every group of three
\* digits of the integer part.
RECURSIVE GroupThousands(_)
GroupThousands(d) ==
    IF Len(d) <= 3 THEN d
    ELSE GroupThousands(SubSeq(d, 1, Len(d) - 3)) \o <<",">>
            \o SubSeq(d, Len(d) - 2, Len(d))

\* f"{amount:,.2f}"
Format2fGrouped(v) ==
    LET s == Format2f(v)
        neg == s[1] = "-"
        body == IF neg THEN Tail(s) ELSE s
        dot == RFind(body, ".")
    IN  (IF neg THEN <<"-">> ELSE <<>>)
            \o GroupThousands(SubSeq(body, 1, dot - 1))
            \o SubSeq(body, dot, Len(body))

\* "1,234.56" with the two separators swapped, a space and the euro sign.
format_money_es(amount_in) ==
    LET s == Format2fGrouped(amount_in)
    IN  Replace(Replace(Replace(s, ",", "X"), ".", ","), "X", ".")
            \o <<" ", "<euro>">>

CnfFieldnames ==
    << <<"Fecha del gasto">>, <<"Proveedor">>, <<"Importe pagado">>,
       <<"Concepto">>, <<"N. de pedido">>, <<"Metodo de pago">> >>

\* save_expenses_to_csv: the header and one line for each row; the date
\* as %d-%m-%Y ('' when the row has none), the amount by format_money_es.
save_expenses_to_csv(expense_rows) ==
    <<CnfFieldnames>>
    \o [i \in 1..Len(expense_rows) |->
          LET r == expense_rows[i]
          IN  << FechaStr(r.fecha), Cell(r.proveedor),
                 format_money_es(r.importe), r.concepto, r.pedido,
                 Cell(r.metodo) >>]

AliFieldnames ==
    << <<"Fecha">>, <<"Proveedor">>, <<"Importe">>, <<"Concepto">>,
       <<"Referencia">>, <<"Metodo">> >>

\* The Importe cell of a row of gastos_aliexpress.csv: str(importe) with
\* a decimal comma for an order, the total to two digits for a month,
\* '---' in the row RESUMEN MENSUAL.
AliImporteCell(r) ==
    CASE r.kind = "detail" -> Replace(PyStr(r.importe), ".", ",")
      [] r.kind = "total" -> Replace(Format2f(r.importe), ".", ",")
      [] r.kind = "header" -> <<"---">>
      [] OTHER -> <<>>

\* The lines of gastos_aliexpress.csv: writeheader() and the rows.
AliCsvFile(rows) ==
    <<AliFieldnames>>
    \o [i \in 1..Len(rows) |->
          LET r == rows[i]
          IN  << r.fecha, Cell(r.proveedor), AliImporteCell(r), r.concepto,
                 r.referencia, Cell(r.metodo) >>]

(***************************************************************************)
(* The variables a state machine does not use keep these values.           *)
(***************************************************************************)
ParsersIdle ==
    /\ value = <<>>
    /\ amount = Return(Zero)
    /\ create_time = <<>>
    /\ order_date = NoDate
    /\ fecha_str = <<>>
    /\ reparsed = NoDate

RowsIdle == orders = <<>> /\ final_rows = <<>>

CnfIdle ==
    /\ pages = <<>>
    /\ END_DATE = NoDate
    /\ page_no = 0
    /\ idx = 0
    /\ processed_orders = <<>>
    /\ stop_early = FALSE
    /\ all_orders = <<>>
    /\ seen_order_nos = {}
    /\ examined = {}

AliIdle ==
    /\ items = <<>>
    /\ item_no = 0
    /\ datos_csv = <<>>
    /\ totales_por_mes = <<>>
    /\ csv_rows = <<>>

FnIdle ==
    /\ texto_fecha = <<>>
    /\ fecha_ret = Return(<<>>)
    /\ products_in = <<>>
    /\ hoodie_name = <<>>
    /\ nombre = <<>>
    /\ concepto = <<>>
    /\ order_in = <<>>
    /\ paid = Zero

NoRun == [loaded |-> <<>>, splits |-> <<>>, pdfs |-> <<>>]

PdfIdle == disk = <<>> /\ run = NoRun

(***************************************************************************)
(* The amount parsers as a state machine: an amount text is drawn, then    *)
(* one of the two parsers is called on it.                                 *)
(***************************************************************************)
SeqsUpTo(A, n) == UNION {[1..k -> A] : k \in 0..n}

Insert(s, i, c) == SubSeq(s, 1, i) \o <<c>> \o SubSeq(s, i + 1, Len(s))

NumAlphabet == {"1", "2", ",", "."}

\* "D": a letter of a currency code that is not in CurrencyChars (USD, EUR).
MixedAlphabet == {"1", ",", "-", "<euro>", " ", "D", "Total:"}

TextTotalUS ==
    <<"Total:", " ", "U", "S", " ", "$", " ", "1", "5", ",", "9", "2">>
TextEuropean == <<"1", ".", "2", "3", "4", ",", "5", "6", " ", "<euro>">>
TextEnglish == <<"<euro>", "1", ",", "2", "3", "4", ".", "5", "6">>
TextEuropeanBare == <<"1", ".", "2", "3", "4", ",", "5", "6">>
TextEnglishBare == <<"1", ",", "2", "3", "4", ".", "5", "6">>
TextDecimalComma == <<"1", "5", ",", "9", "2">>
TextThousandsDot == <<"1", ".", "2", "3", "4">>

ExampleTexts ==
    {TextTotalUS, TextEuropean, TextEnglish, TextEuropeanBare,
     TextEnglishBare, TextDecimalComma, TextThousandsDot}

AmountTexts ==
    SeqsUpTo(NumAlphabet, MaxNumLen) \cup SeqsUpTo(MixedAlphabet, MaxLen)
        \cup ExampleTexts \cup {None}

InitMoney ==
    /\ pc = "input"
    /\ value \in AmountTexts
    /\ amount = Return(Zero)
    /\ create_time = <<>>
    /\ order_date = NoDate
    /\ fecha_str = <<>>
    /\ reparsed = NoDate
    /\ orders = <<>>
    /\ final_rows = <<>>
    /\ CnfIdle /\ AliIdle /\ FnIdle /\ PdfIdle

ParseMoney ==
    /\ pc = "input"
    /\ pc' = "parse_money"
    /\ amount' = parse_money(value)
    /\ UNCHANGED <<value, create_time, order_date, fecha_str, reparsed,
                   orders, final_rows, cnfVars, aliVars, fnVars,
                   pdfVars>>

\* limpiar_precio is only called on the text of an element: never on None.
LimpiarPrecio ==
    /\ pc = "input"
    /\ value # None
    /\ pc' = "limpiar_precio"
    /\ amount' = limpiar_precio(value)
    /\ UNCHANGED <<value, create_time, order_date, fecha_str, reparsed,
                   orders, final_rows, cnfVars, aliVars, fnVars,
                   pdfVars>>

NextMoney == ParseMoney \/ LimpiarPrecio

SpecMoney == InitMoney /\ [][NextMoney]_vars

(***************************************************************************)
(* build_expense_rows as a state machine: a list of orders is drawn (the   *)
(* order numbers are distinct, as scrape_cnfans_orders leaves them) and    *)
(* build_expense_rows is called on it.                                     *)
(***************************************************************************)
T_15_11_2025 == <<"1", "5", "-", "1", "1", "-", "2", "0", "2", "5">>
T_20_11_2025 == <<"2", "0", "/", "1", "1", "/", "2", "0", "2", "5">>
T_2025_12_01 ==
    <<"2", "0", "2", "5", "-", "1", "2", "-", "0", "1", " ", "0", "9", ":",
      "3", "0">>
T_15_11_2024 == <<"1", "5", "-", "1", "1", "-", "2", "0", "2", "4">>

OrderCreateTimes == {T_15_11_2025, T_20_11_2025, T_2025_12_01, T_15_11_2024}

NoAmounts ==
    [actual_payment |-> <<>>, total_amount |-> <<>>,
     total_product_amount |-> <<>>, domestic_shipping |-> <<>>,
     value_added_services |-> <<>>, shipping_cost |-> <<>>,
     products |-> <<>>]

\* Paid 10: an "Actual Payment" of "<euro>10.00".
Paid10 ==
    [NoAmounts EXCEPT
        !.actual_payment = <<"<euro>", "1", "0", ".", "0", "0">>,
        !.total_product_amount = <<"9">>,
        !.products = << [name |-> <<"Z", "i", "p", " ", "H", "o", "o", "d",
                                   "i", "e">>] >>]

\* Paid 5: products for "5".
Paid5 == [NoAmounts EXCEPT !.total_product_amount = <<"5">>]

\* Paid 7: products for "5,50" and a parcel for "1,50".
Paid7 ==
    [NoAmounts EXCEPT
        !.total_product_amount = <<"5", ",", "5", "0">>,
        !.shipping_cost = <<"1", ",", "5", "0">>,
        !.products = << [name |-> <<" ">>], [name |-> <<"T", "e", "e">>] >>]

OrderBodies == {Paid10, Paid5, Paid7}

OrderNo(i) == <<"N">> \o NatText(i)

Order(i, ct, body) ==
    [order_no |-> OrderNo(i), create_time |-> ct,
     actual_payment |-> body.actual_payment,
     total_amount |-> body.total_amount,
     total_product_amount |-> body.total_product_amount,
     domestic_shipping |-> body.domestic_shipping,
     value_added_services |-> body.value_added_services,
     shipping_cost |-> body.shipping_cost,
     products |-> body.products]

\* The lists of at most max orders.
OrderLists(max) ==
    UNION { { [i \in 1..n |-> Order(i, cts[i], bodies[i])] :
                cts \in [1..n -> OrderCreateTimes],
                bodies \in [1..n -> OrderBodies] } : n \in 0..max }

InitRows ==
    /\ pc = "input"
    /\ orders \in OrderLists(MaxOrders)
    /\ final_rows = <<>>
    /\ value = <<>>
    /\ amount = Return(Zero)
    /\ create_time = <<>>
    /\ order_date = NoDate
    /\ fecha_str = <<>>
    /\ reparsed = NoDate
    /\ CnfIdle /\ AliIdle /\ FnIdle /\ PdfIdle

BuildExpenseRows ==
    /\ pc = "input"
    /\ pc' = "built"
    /\ final_rows' = build_expense_rows(orders)
    /\ UNCHANGED <<orders, value, amount, create_time, order_date, fecha_str,
                   reparsed, cnfVars, aliVars, fnVars,
                   pdfVars>>

NextRows == BuildExpenseRows

SpecRows == InitRows /\ [][NextRows]_vars

(***************************************************************************)
(* Claims about build_expense_rows, checked under SpecRows.                *)
(***************************************************************************)
IsDetail(r) == r.fecha # NoDate

YearMonth(r) == <<r.fecha.year, r.fecha.month>>

Details(rows) == {i \in 1..Len(rows) : IsDetail(rows[i])}

Totals(rows) == {i \in 1..Len(rows) : ~IsDetail(rows[i])}

AllDatesParse ==
    \A k \in 1..Len(orders) :
        parse_create_time_to_date(orders[k].create_time) # NoDate

OrderMonths ==
    { LET d == parse_create_time_to_date(orders[k].create_time)
      IN  <<d.year, d.month>> : k \in 1..Len(orders) }

\* The sum, in units of 10^-FracDigits, of the amounts of rows[i], i in S.
RECURSIVE SumScaled(_, _)
SumScaled(rows, S) ==
    IF S = {} THEN 0
    ELSE LET i == CHOOSE x \in S : TRUE
         IN  ToScaled(rows[i].importe) + SumScaled(rows, S \ {i})

\* The orders of 15 Nov (10), 20 Nov (5) and 1 Dec (7) of 2025.
ScenarioOrders ==
    << Order(1, T_15_11_2025, Paid10), Order(2, T_20_11_2025, Paid5),
       Order(3, T_2025_12_01, Paid7) >>

InputPlace(no) == CHOOSE k \in 1..Len(orders) : orders[k].order_no = no

\* C2: the detail rows of the output are in non-decreasing date order, and
\* two of them with the same date are in the order of the input; every
\* order with a date has its row.
C2_StableSortByDate ==
    pc = "built" =>
        LET det == SelectSeq(final_rows, IsDetail) IN
        /\ {det[i].pedido : i \in 1..Len(det)} =
              {orders[k].order_no : k \in
                  {x \in 1..Len(orders) :
                      parse_create_time_to_date(orders[x].create_time)
                          # NoDate}}
        /\ \A i \in 1..Len(det), j \in 1..Len(det) :
              i < j =>
                /\ ~DateLT(det[j].fecha, det[i].fecha)
                /\ det[i].fecha = det[j].fecha
                      => InputPlace(det[i].pedido) < InputPlace(det[j].pedido)

\* 20 Nov, 15 Nov, 20 Nov in the input: the rows come out as the second,
\* the first, the third.
C2_Witness ==
    /\ pc = "built"
    /\ Len(orders) = 3
    /\ orders[1].create_time = T_20_11_2025
    /\ orders[2].create_time = T_15_11_2025
    /\ orders[3].create_time = T_20_11_2025
    /\ final_rows[1].pedido = OrderNo(2)
    /\ final_rows[2].pedido = OrderNo(1)
    /\ final_rows[3].pedido = OrderNo(3)

(***************************************************************************)
(* Claims about the amount parsers, checked under SpecMoney.               *)
(***************************************************************************)
HasDigit(s) == \E i \in 1..Len(s) : s[i] \in Digits

\* The numeric part of the current amount text, once parse_money has run on
\* a text that holds one.
Parsed == pc = "parse_money" /\ value # None /\ MatchStarts(value) # {}

\* The number written by text s when its only occurrence of separator dec is
\* read as the decimal point, s holding nothing else but digits and a
\* leading minus.
DecimalReading(s, dec) ==
    LET neg == s[1] = "-"
        body == IF neg THEN Tail(s) ELSE s
        p == RFind(body, dec)
    IN  Float(neg, DigitsVal(SubSeq(body, 1, p - 1)),
              SubSeq(body, p + 1, Len(body)))

\* The number written by the digits of s alone, every separator stripped.
ThousandsReading(s) ==
    LET t == Remove(Remove(s, ","), ".") IN
    Float(t[1] = "-", DigitsVal(IF t[1] = "-" THEN Tail(t) ELSE t), <<>>)

\* With both separators: the rightmost kind is the decimal separator and the
\* other kind is stripped; a decimal separator that occurs twice leaves no
\* number and the result is zero.
RightmostReading(num) ==
    LET dec == IF RFind(num, ",") > RFind(num, ".") THEN "," ELSE "."
        other == IF dec = "," THEN "." ELSE ","
        kept == Remove(num, other)
    IN  IF Count(kept, dec) = 1 THEN DecimalReading(kept, dec) ELSE Zero

\* C3: when the numeric part holds both a comma and a dot, parse_money takes
\* the rightmost separator as the decimal separator and strips the other
\* one: "1.234,56" and "1,234.56" both give 1234.56.
C3_RightmostSeparatorIsDecimal ==
    /\ (Parsed /\ Count(NumericRun(value), ",") > 0
               /\ Count(NumericRun(value), ".") > 0)
          => amount = Return(RightmostReading(NumericRun(value)))
    /\ (pc = "parse_money" /\ value \in {TextEuropeanBare, TextEnglishBare})
          => amount = Return(Float(FALSE, 1234, <<"5", "6">>))

C3_Witness ==
    /\ pc = "parse_money"
    /\ value = TextEnglishBare
    /\ amount = Return(Float(FALSE, 1234, <<"5", "6">>))

OneClass(num) ==
    (Count(num, ",") > 0) # (Count(num, ".") > 0)

OnlySeparator(num) == IF Count(num, ",") > 0 THEN "," ELSE "."

FinalGroupLen(num) == Len(num) - RFind(num, OnlySeparator(num))

\* C4 as stated: with only commas or only dots, the separator is the decimal
\* separator when the final group has exactly 2 digits and is otherwise
\* stripped as a thousands separator: "15,92" gives 15.92, "1.234" gives
\* 1234.  (Stated for the texts where the reading is not in doubt: a
\* 2-digit final group after the text's single separator, or a final group
\* of another length.)
C4_AsStated ==
    (Parsed /\ OneClass(NumericRun(value))) =>
        LET num == NumericRun(value)
            sep == OnlySeparator(num)
        IN  /\ (FinalGroupLen(num) = 2 /\ Count(num, sep) = 1)
                  => amount = Return(DecimalReading(num, sep))
            /\ FinalGroupLen(num) # 2
                  => amount = Return(ThousandsReading(num))

\* C4 amended: with only commas, the comma is the decimal separator when
\* the final group has exactly 2 digits (every comma then becomes a decimal
\* point, so a second comma leaves no number and the result is 0) and is
\* otherwise stripped; with only dots, the dot is always the decimal point,
\* whatever the length of the final group ("1.234" gives 1.234), and a
\* second dot leaves no number and the result is 0.
C4_CommaHeuristicDotDecimal ==
    /\ (Parsed /\ OneClass(NumericRun(value))) =>
        LET num == NumericRun(value)
            sep == OnlySeparator(num)
        IN  IF sep = "," /\ FinalGroupLen(num) # 2
            THEN amount = Return(ThousandsReading(num))
            ELSE IF Count(num, sep) = 1
            THEN amount = Return(DecimalReading(num, sep))
            ELSE amount = Return(Zero)
    /\ (pc = "parse_money" /\ value = TextDecimalComma)
          => amount = Return(Float(FALSE, 15, <<"9", "2">>))
    /\ (pc = "parse_money" /\ value = TextThousandsDot)
          => amount = Return(Float(FALSE, 1, <<"2", "3", "4">>))

C4_Witness ==
    /\ pc = "parse_money"
    /\ value = TextThousandsDot
    /\ amount = Return(Float(FALSE, 1, <<"2", "3", "4">>))

\* C5: parse_money never raises, and returns zero for None, for the empty
\* text and for every text that holds no digit; a numeric part that is no
\* number ("1.2.1") gives zero too.
C5_NeverRaisesZeroWithoutDigits ==
    pc = "parse_money" =>
        /\ amount.exc = "none"
        /\ (value = None \/ ~HasDigit(value)) => amount.val = Zero
        /\ value = <<"1", ".", "2", ".", "1">> => amount.val = Zero

C5_Witness ==
    /\ pc = "parse_money"
    /\ value = <<"1", ".", "2", ".", "1">>
    /\ amount = Return(Zero)

\* What a text may carry besides the amount: a currency symbol, whitespace,
\* a letter of a currency code, a label.
Decorations == {"<euro>", " ", "D", "Total:"}

Parser(v) == IF pc = "parse_money" THEN parse_money(v) ELSE limpiar_precio(v)

OutsideRun(s) ==
    IF MatchStarts(s) = {} THEN 0..Len(s)
    ELSE {i \in 0..Len(s) : i < MatchStart(s) \/ i >= MatchEnd(s)}

C7_LimpiarPrecioExamples ==
    pc = "limpiar_precio" =>
        /\ value = TextTotalUS => amount = Return(Float(FALSE, 15, <<"9", "2">>))
        /\ value \in {TextEuropean, TextEnglish}
              => amount = Return(Float(FALSE, 1234, <<"5", "6">>))

\* The text after a leading minus and the currency symbols and spaces that
\* follow it.
RECURSIVE AfterGap(_)
AfterGap(s) ==
    IF s # <<>> /\ s[1] \in {"<euro>", " "} THEN AfterGap(Tail(s)) ELSE s

\* C8: when the text starts with a minus that comes before the digits, with
\* or without a currency symbol or a space in between, the result is the
\* negative of the value parsed without the minus.
C8_SignPreserved ==
    (/\ pc = "parse_money" /\ value # None /\ value # <<>>
     /\ value[1] = "-"
     /\ AfterGap(Tail(value)) # <<>>
     /\ AfterGap(Tail(value))[1] \in Digits)
        => amount.val = Neg(parse_money(AfterGap(Tail(value))).val)

(***************************************************************************)
(* The date parser as a state machine: a date text is drawn and parsed;    *)
(* a parsed date is written as save_expenses_to_csv writes it, and that    *)
(* cell is parsed again.                                                   *)
(***************************************************************************)
DayMonthFields ==
    { <<"3">>, <<"0", "4">>, <<"1", "2">>, <<"1", "3">>, <<"2", "5">>,
      <<"2", "9">>, <<"3", "1">>, <<"0", "2">> }

YearFields == { <<"2", "0", "2", "4">>, <<"2", "0", "2", "5">> }

DateSeparators == {"-", "/"}

TimeHM == <<" ", "1", "0", ":", "1", "1">>
TimeHMS == <<" ", " ", "1", "0", ":", "1", "1", ":", "1", "2">>
TimeBadHour == <<" ", "2", "5", ":", "0", "0">>

TimeSuffixes == {<<>>, TimeHM, TimeHMS, TimeBadHour}

ValidTimeSuffixes == {<<>>, TimeHM, TimeHMS}

Prefixes == {<<>>, <<"Create Time:", " ">>}

DateText(pre, a, s1, b, s2, c, t) ==
    pre \o a \o <<s1>> \o b \o <<s2>> \o c \o t

\* Day-month-year and month-day-year shaped texts, year-month-day shaped
\* texts, the empty text and None.
CreateTimes ==
    { DateText(pre, a, s1, b, s2, y, t) :
        pre \in Prefixes, a \in DayMonthFields, s1 \in DateSeparators,
        b \in DayMonthFields, s2 \in DateSeparators, y \in YearFields,
        t \in TimeSuffixes }
      \cup
    { DateText(pre, y, s1, a, s2, b, t) :
        pre \in Prefixes, y \in YearFields, s1 \in DateSeparators,
        a \in DayMonthFields, s2 \in DateSeparators, b \in DayMonthFields,
        t \in TimeSuffixes }
      \cup {<<>>, None}

InitDate ==
    /\ pc = "input"
    /\ create_time \in CreateTimes
    /\ order_date = NoDate
    /\ fecha_str = <<>>
    /\ reparsed = NoDate
    /\ value = <<>>
    /\ amount = Return(Zero)
    /\ orders = <<>>
    /\ final_rows = <<>>
    /\ CnfIdle /\ AliIdle /\ FnIdle /\ PdfIdle

ParseCreateTime ==
    /\ pc = "input"
    /\ pc' = "parsed"
    /\ order_date' = parse_create_time_to_date(create_time)
    /\ UNCHANGED <<create_time, fecha_str, reparsed, value, amount, orders,
                   final_rows, cnfVars, aliVars, fnVars,
                   pdfVars>>

\* save_expenses_to_csv writes the date cell of a row that holds a date.
WriteDateCell ==
    /\ pc = "parsed"
    /\ order_date # NoDate
    /\ pc' = "written"
    /\ fecha_str' = FechaStr(order_date)
    /\ UNCHANGED <<create_time, order_date, reparsed, value, amount, orders,
                   final_rows, cnfVars, aliVars, fnVars,
                   pdfVars>>

ReparseDateCell ==
    /\ pc = "written"
    /\ pc' = "reparsed"
    /\ reparsed' = parse_create_time_to_date(fecha_str)
    /\ UNCHANGED <<create_time, order_date, fecha_str, value, amount, orders,
                   final_rows, cnfVars, aliVars, fnVars,
                   pdfVars>>

NextDate == ParseCreateTime \/ WriteDateCell \/ ReparseDateCell

SpecDate == InitDate /\ [][NextDate]_vars

(***************************************************************************)
(* Claims about the date parser, checked under SpecDate.                   *)
(***************************************************************************)
DateOf(y, m, d) == [year |-> y, month |-> m, day |-> d]

\* C9: the candidate formats are tried in list order.  For a numeric
\* slash-separated text a/b/Y, with or without a time, the result is the
\* day-first reading (day a, month b) whenever that is a calendar date, the
\* month-first reading (month a, day b) only when the day-first one is not
\* and the month-first one is, and None when neither is; the time is
\* dropped.
C9_DayFirstBeforeMonthFirst ==
    pc = "parsed" =>
        \A pre \in Prefixes, a \in DayMonthFields, b \in DayMonthFields,
           y \in YearFields, t \in ValidTimeSuffixes :
            create_time = DateText(pre, a, "/", b, "/", y, t) =>
                LET da == DigitsVal(a)
                    db == DigitsVal(b)
                    yy == DigitsVal(y)
                IN  IF ValidDate(yy, db, da)
                    THEN order_date = DateOf(yy, db, da)
                    ELSE IF ValidDate(yy, da, db)
                    THEN order_date = DateOf(yy, da, db)
                    ELSE order_date = NoDate

\* "04/13/2025 10:11": not a day-first date, read month-first.
C9_Witness ==
    /\ pc = "parsed"
    /\ create_time =
          DateText(<<>>, <<"0", "4">>, "/", <<"1", "3">>, "/",
                   <<"2", "0", "2", "5">>, TimeHM)
    /\ order_date = DateOf(2025, 4, 13)

\* "3/04/2025": both readings are calendar dates, read day-first.
C9_WitnessAmbiguous ==
    /\ pc = "parsed"
    /\ create_time =
          DateText(<<>>, <<"3">>, "/", <<"0", "4">>, "/",
                   <<"2", "0", "2", "5">>, <<>>)
    /\ order_date = DateOf(2025, 4, 3)

MaxSiteOrders == 3   \* most orders the site lists
PageSize == 2        \* orders the site shows on one page

START_DATE_STR == <<"0", "9", "-", "1", "2", "-", "2", "0", "2", "5">>

START_DATE == strptime(START_DATE_STR, Fmt("dmy", "-", 0)).date

Date(y, m, d) == [year |-> y, month |-> m, day |-> d]

\* date.today() when the module is loaded: two of the days on which the
\* program may run.
Todays == {Date(2025, 12, 10), Date(2025, 12, 11)}

T_08_12_2025 == <<"0", "8", "-", "1", "2", "-", "2", "0", "2", "5">>
T_2025_12_09 ==
    <<"2", "0", "2", "5", "-", "1", "2", "-", "0", "9", " ", "1", "8", ":",
      "0", "5", ":", "5", "9">>
T_11_12_2025 == <<"1", "1", "/", "1", "2", "/", "2", "0", "2", "5">>
T_Unparseable == <<"n", "/", "a">>

\* The date texts of the site: the day before START_DATE, START_DATE, a
\* day that is END_DATE or the day after it, and a text that is no date.
SiteCreateTimes == {T_08_12_2025, T_2025_12_09, T_11_12_2025, T_Unparseable}

\* The order numbers of the site: the order at place k has its own
\* number, or none.
SiteOrderNos(k) == {<<>>, OrderNo(k)}

SiteOrder(no, ct) == [Order(1, ct, Paid7) EXCEPT !.order_no = no]

\* The order lists of a site with at most max orders.
SiteLists(max) ==
    UNION { { [k \in 1..n |-> SiteOrder(nos[k], cts[k])] :
                cts \in [1..n -> SiteCreateTimes],
                nos \in {f \in [1..n -> {<<>>} \cup {OrderNo(k) : k \in 1..n}] :
                            \A k \in 1..n : f[k] \in SiteOrderNos(k)} } :
            n \in 0..max }

\* The list cut into pages of PageSize orders; an empty list is one empty
\* page.
RECURSIVE Paginate(_)
Paginate(os) ==
    IF Len(os) <= PageSize THEN <<os>>
    ELSE <<SubSeq(os, 1, PageSize)>>
            \o Paginate(SubSeq(os, PageSize + 1, Len(os)))

InitScrape ==
    /\ pc = "page"
    /\ pages \in {Paginate(os) : os \in SiteLists(MaxSiteOrders)}
    /\ END_DATE \in Todays
    /\ page_no = 1
    /\ idx = 0
    /\ processed_orders = <<>>
    /\ stop_early = FALSE
    /\ all_orders = <<>>
    /\ seen_order_nos = {}
    /\ examined = {}
    /\ ParsersIdle /\ RowsIdle /\ AliIdle /\ FnIdle /\ PdfIdle

\* process_page_orders up to its loop: processed_orders = [], stop_early =
\* False, and wait_for_selector, which raises when the page has no order.
WaitForSelector ==
    /\ pc = "page"
    /\ processed_orders' = <<>>
    /\ stop_early' = FALSE
    /\ IF pages[page_no] = <<>>
       THEN pc' = "aborted" /\ idx' = idx
       ELSE pc' = "loop" /\ idx' = 1
    /\ UNCHANGED <<pages, END_DATE, page_no, all_orders, seen_order_nos,
                   examined, parserVars, rowVars, aliVars, fnVars,
                   pdfVars>>

\* The range test with the upper end left out.
VerdictNoUpperEnd(d) ==
    IF d = NoDate THEN "skip"
    ELSE IF DateLT(d, START_DATE) THEN "stop"
    ELSE "accept"

\* The range test going on after an order older than START_DATE.
VerdictSkipOld(d) ==
    IF d = NoDate THEN "skip"
    ELSE IF DateLT(d, START_DATE) THEN "skip"
    ELSE IF DateLT(END_DATE, d) THEN "skip"
    ELSE "accept"

\* What the loop does with an order of that date: "skip" (continue),
\* "stop" (stop_early = True; break) or "accept" (append).
Verdict(d) ==
    IF d = NoDate THEN "skip"
    ELSE IF DateLT(d, START_DATE) THEN "stop"
    ELSE IF DateLT(END_DATE, d) THEN "skip"
    ELSE "accept"

\* One turn of the loop of process_page_orders, and the return when the
\* loop ends with it.
ExamineOrder ==
    /\ pc = "loop"
    /\ idx <= Len(pages[page_no])
    /\ LET order_data == pages[page_no][idx]
           v == Verdict(parse_create_time_to_date(order_data.create_time))
           last == idx = Len(pages[page_no])
       IN  /\ examined' = examined \cup {<<page_no, idx>>}
           /\ stop_early' = IF v = "stop" THEN TRUE ELSE stop_early
           /\ processed_orders' =
                 IF v = "accept" THEN Append(processed_orders, order_data)
                 ELSE processed_orders
           /\ pc' = IF v = "stop" \/ last THEN "collect" ELSE "loop"
    /\ idx' = idx + 1
    /\ UNCHANGED <<pages, END_DATE, page_no, all_orders, seen_order_nos,
                   parserVars, rowVars, aliVars, fnVars,
                   pdfVars>>

\* The loop without "if order_no in seen_order_nos: continue".
RECURSIVE CollectSeenAgain(_, _, _)
CollectSeenAgain(os, all, seen) ==
    IF os = <<>> THEN [all |-> all, seen |-> seen]
    ELSE LET o == Head(os)
         IN  IF o.order_no = <<>> THEN CollectSeenAgain(Tail(os), all, seen)
             ELSE CollectSeenAgain(Tail(os), Append(all, o),
                                   seen \cup {o.order_no})

\* for o in orders_on_page: the orders without a number and the orders
\* whose number was seen are left out.
RECURSIVE Collect(_, _, _)
Collect(os, all, seen) ==
    IF os = <<>> THEN [all |-> all, seen |-> seen]
    ELSE LET o == Head(os)
         IN  IF o.order_no = <<>> THEN Collect(Tail(os), all, seen)
             ELSE IF o.order_no \in seen THEN Collect(Tail(os), all, seen)
             ELSE Collect(Tail(os), Append(all, o),
                          seen \cup {o.order_no})

\* The rest of one turn of the while loop up to "if stop_early: break".
CollectOrders ==
    /\ pc = "collect"
    /\ LET c == Collect(processed_orders, all_orders, seen_order_nos)
       IN  all_orders' = c.all /\ seen_order_nos' = c.seen
    /\ pc' = IF stop_early THEN "done" ELSE "next"
    /\ UNCHANGED <<pages, END_DATE, page_no, idx, processed_orders,
                   stop_early, examined, parserVars, rowVars, aliVars,
                   fnVars,
                   pdfVars>>

\* go_to_next_page: True after a click on the item of the next page, False
\* when the pagination shows no such item.
GoToNextPage ==
    /\ pc = "next"
    /\ IF page_no < Len(pages)
       THEN page_no' = page_no + 1 /\ pc' = "page"
       ELSE page_no' = page_no /\ pc' = "done"
    /\ UNCHANGED <<pages, END_DATE, idx, processed_orders, stop_early,
                   all_orders, seen_order_nos, examined, parserVars,
                   rowVars, aliVars, fnVars,
                   pdfVars>>

\* return all_orders; orders = scrape_cnfans_orders().
ReturnAllOrders ==
    /\ pc = "done"
    /\ orders' = all_orders
    /\ pc' = "input"
    /\ UNCHANGED <<final_rows, cnfVars, parserVars, aliVars, fnVars,
                   pdfVars>>

NextScrape ==
    \/ WaitForSelector
    \/ ExamineOrder
    \/ CollectOrders
    \/ GoToNextPage
    \/ ReturnAllOrders
    \/ BuildExpenseRows

SpecScrape == InitScrape /\ [][NextScrape]_vars

(***************************************************************************)
(* The two callers of parse_create_time_to_date on orders without a        *)
(* parseable date: the scraper above, and build_expense_rows on lists in   *)
(* which some orders have a date text that is no date, or none.            *)
(***************************************************************************)
UndatedCreateTimes == {T_15_11_2025, T_2025_12_01, T_Unparseable, <<>>}

UndatedBodies == {Paid5, Paid7}

UndatedLists(max) ==
    UNION { { [k \in 1..n |-> Order(k, cts[k], bodies[k])] :
                cts \in [1..n -> UndatedCreateTimes],
                bodies \in [1..n -> UndatedBodies] } : n \in 0..max }

InitUndated ==
    /\ pc = "input"
    /\ orders \in UndatedLists(MaxOrders)
    /\ final_rows = <<>>
    /\ ParsersIdle /\ CnfIdle /\ AliIdle /\ FnIdle /\ PdfIdle

SpecCallers == (InitScrape \/ InitUndated) /\ [][NextScrape]_vars

Undated(o) == parse_create_time_to_date(o.create_time) = NoDate

Dated(os) == {k \in 1..Len(os) : ~Undated(os[k])}

RECURSIVE PaidScaled(_, _)
PaidScaled(os, S) ==
    IF S = {} THEN 0
    ELSE LET k == CHOOSE x \in S : TRUE
         IN  ToScaled(compute_paid_amount(os[k])) + PaidScaled(os, S \ {k})

\* C11: an order whose date text matches no format is skipped by both
\* callers, and only that order.  In process_page_orders: it is not among
\* the processed or collected orders, it does not set stop_early, the next
\* order of the page is examined, and the run aborts only on a page
\* without orders.  In build_expense_rows: the detail rows are exactly the
\* rows of the orders with a date, and the monthly totals add up to the
\* amounts of those orders.
C11_UnparseableDateSkipped ==
    /\ \A k \in 1..Len(processed_orders) : ~Undated(processed_orders[k])
    /\ \A k \in 1..Len(all_orders) : ~Undated(all_orders[k])
    /\ \A e \in examined :
          Undated(pages[e[1]][e[2]]) /\ e[2] < Len(pages[e[1]]) =>
              \/ <<e[1], e[2] + 1>> \in examined
              \/ pc = "loop" /\ page_no = e[1] /\ idx = e[2] + 1
    /\ stop_early =>
          \E e \in examined :
              /\ e[1] = page_no
              /\ ~Undated(pages[e[1]][e[2]])
              /\ DateLT(parse_create_time_to_date(
                            pages[e[1]][e[2]].create_time), START_DATE)
    /\ pc = "aborted" => pages[page_no] = <<>>
    /\ pc = "built" =>
          LET F == final_rows
              det == SelectSeq(F, IsDetail)
          IN  /\ Len(det) = Cardinality(Dated(orders))
              /\ \A k \in 1..Len(orders) :
                    Undated(orders[k]) <=>
                        \A i \in 1..Len(det) :
                            det[i].pedido # orders[k].order_no
              /\ SumScaled(F, Totals(F)) = PaidScaled(orders, Dated(orders))

\* build_expense_rows was given an order without a date before an order
\* with one, and returned the row of the second and its month total.
C11_Witness ==
    /\ pc = "built"
    /\ Len(orders) = 2
    /\ orders[1].create_time = T_Unparseable
    /\ orders[2].create_time = T_2025_12_01
    /\ Len(final_rows) = 2
    /\ final_rows[1].pedido = OrderNo(2)
    /\ final_rows[2].concepto = TotalRow(<<2025, 12>>, Zero).concepto

\* process_page_orders skipped the first order of a page, whose date text
\* is no date, and accepted the second.
C11_WitnessPage ==
    /\ pc = "collect"
    /\ page_no = 1
    /\ pages[1][1].create_time = T_Unparseable
    /\ examined = {<<1, 1>>, <<1, 2>>}
    /\ processed_orders = <<pages[1][2]>>

(***************************************************************************)
(* procesar_fecha as a state machine: a header text is drawn and           *)
(* procesar_fecha is called on it.                                         *)
(***************************************************************************)
PedidoEfectuado == <<"Pedido efectuado el:", " ">>

FechaPrefixes == {<<>>, PedidoEfectuado}

FechaDays ==
    {<<"5">>, <<"0", "5">>, <<"2", "6">>, <<"3", "1">>, <<"0">>,
     <<"1", "2", "6">>}

\* The twelve keys of MESES, an English abbreviation, a key in capitals
\* and three letters that are no month.
FechaAbbrs ==
    DOMAIN MESES \cup {<<"d", "e", "c">>, <<"D", "I", "C">>, <<"x", "y", "z">>}

FechaYears == {<<"2", "0", "2", "5">>, <<"2", "0", "2", "4">>}

\* "D mmm, YYYY" after the prefix.
FechaText(pre, d, mmm, y) == pre \o d \o <<" ">> \o mmm \o <<",", " ">> \o y

\* Texts without a match: no text, no comma, an abbreviation of four
\* letters, nothing between day and month.
FechaOddTexts ==
    {<<>>,
     <<"2", "6", " ", "d", "i", "c", " ", "2", "0", "2", "5">>,
     <<"2", "6", " ", "s", "e", "p", "t", ",", " ", "2", "0", "2", "5">>,
     <<"2", "6", "d", "i", "c", ",", " ", "2", "0", "2", "5">>}

FechaTexts ==
    {FechaText(pre, d, mmm, y) :
        pre \in FechaPrefixes, d \in FechaDays, mmm \in FechaAbbrs,
        y \in FechaYears} \cup FechaOddTexts

InitFecha ==
    /\ pc = "input"
    /\ texto_fecha \in FechaTexts
    /\ fecha_ret = Return(<<>>)
    /\ products_in = <<>>
    /\ hoodie_name = <<>>
    /\ nombre = <<>>
    /\ concepto = <<>>
    /\ order_in = <<>>
    /\ paid = Zero
    /\ ParsersIdle /\ RowsIdle /\ CnfIdle /\ AliIdle /\ PdfIdle

ProcesarFecha ==
    /\ pc = "input"
    /\ pc' = "procesar_fecha"
    /\ fecha_ret' = procesar_fecha(texto_fecha)
    /\ UNCHANGED <<texto_fecha, products_in, hoodie_name, nombre, concepto,
                   order_in, paid, parserVars, rowVars, cnfVars, aliVars,
                   pdfVars>>

NextFecha == ProcesarFecha

SpecFecha == InitFecha /\ [][NextFecha]_vars

(***************************************************************************)
(* main of aliexpress_scraper.py as a state machine: the blocks of the     *)
(* input file are drawn; each step handles one block, and when the loop    *)
(* is over the CSV is written.  The ValueError of procesar_fecha is caught *)
(* nowhere: it ends the run before any file is written (pc = "aborted").   *)
(***************************************************************************)
MaxItems == 3   \* most order blocks in the input file

AliHeader(fecha_txt, ref) ==
    PedidoEfectuado \o fecha_txt
        \o <<" ", "|", " ", "No de pedido:", " ">> \o ref
        \o <<" ", "|", " ", "Copiar">>

F_26_dic_2025 == <<"2", "6", " ", "d", "i", "c", ",", " ", "2", "0", "2", "5">>
F_5_nov_2025 == <<"5", " ", "n", "o", "v", ",", " ", "2", "0", "2", "5">>
F_31_feb_2025 == <<"3", "1", " ", "f", "e", "b", ",", " ", "2", "0", "2", "5">>

\* The headers of a block: two months, a date no calendar has, and a
\* block without header.
AliHeaders(k) ==
    {AliHeader(F_26_dic_2025, OrderNo(k)), AliHeader(F_5_nov_2025, OrderNo(k)),
     AliHeader(F_31_feb_2025, OrderNo(k)), None}

PrecioUS == <<"U", "S", " ", "$", " ", "1", "5", ",", "9", "2">>

\* The name and the price of a block: both present, or both missing.
AliBodies ==
    {[nombre |-> <<"T", "e", "e">>, precio |-> PrecioUS],
     [nombre |-> None, precio |-> None]}

\* The inputs of at most max blocks.
AliItemLists(max) ==
    UNION { { [k \in 1..n |-> [header |-> hs[k], nombre |-> bs[k].nombre,
                               precio |-> bs[k].precio]] :
                hs \in {f \in [1..n -> UNION {AliHeaders(k) : k \in 1..n}] :
                           \A k \in 1..n : f[k] \in AliHeaders(k)},
                bs \in [1..n -> AliBodies] } : n \in 0..max }

InitAli ==
    /\ pc = "items"
    /\ items \in AliItemLists(MaxItems)
    /\ item_no = 1
    /\ datos_csv = <<>>
    /\ totales_por_mes = <<>>
    /\ csv_rows = <<>>
    /\ ParsersIdle /\ RowsIdle /\ CnfIdle /\ FnIdle /\ PdfIdle

\* One turn of "for item in items".
ProcessItem ==
    /\ pc = "items"
    /\ item_no <= Len(items)
    /\ LET r == AliItem(items[item_no])
       IN  IF r.exc # "none"
           THEN /\ pc' = "aborted"
                /\ UNCHANGED <<item_no, datos_csv, totales_por_mes,
                   pdfVars>>
           ELSE /\ pc' = pc
                /\ item_no' = item_no + 1
                /\ totales_por_mes' =
                      AddToMonth(totales_por_mes, r.mes_anio, r.importe)
                /\ datos_csv' = Append(datos_csv, r.row)
    /\ UNCHANGED <<items, csv_rows, parserVars, rowVars, cnfVars, fnVars,
                   pdfVars>>

\* with open(OUTPUT_FILE, 'w') ...: the whole file.
WriteCsv ==
    /\ pc = "items"
    /\ item_no > Len(items)
    /\ pc' = "written"
    /\ csv_rows' = AliCsvRows(datos_csv, totales_por_mes)
    /\ disk' = <<AliCsvFile(csv_rows')>>
    /\ UNCHANGED <<items, item_no, datos_csv, totales_por_mes, parserVars,
                   rowVars, cnfVars, fnVars, run>>

NextAli == ProcessItem \/ WriteCsv

SpecAli == InitAli /\ [][NextAli]_vars

(***************************************************************************)
(* Claims about procesar_fecha and main of aliexpress_scraper.py.          *)
(***************************************************************************)
\* The blocks handled so far whose header holds no date.
SinFecha(k) == AliItem(items[k]).mes_anio = FechaDesconocida.mes_anio

\* C12: a date that cannot be read never aborts the run of main: every
\* block handled so far has its row, a block without a readable date has
\* the row of the sentinel date, and its amount is under the sentinel key.
C12_UnreadableDateNeverAborts ==
    /\ pc # "aborted"
    /\ pc \in {"items", "written"} =>
          /\ Len(datos_csv) = item_no - 1
          /\ \A k \in 1..(item_no - 1) :
                SinFecha(k) =>
                    /\ datos_csv[k].fecha = FechaDesconocida.fecha_str
                    /\ \E t \in 1..Len(totales_por_mes) :
                          totales_por_mes[t].mes = FechaDesconocida.mes_anio

\* The month the text of a date cell d/mm/yyyy holds.
MonthOfCell(cell) == Split(cell, "/")[2]

\* C13: on a text that embeds "D mmm, YYYY", procesar_fecha returns the
\* date D/mm/YYYY and the key mm-YYYY, mm being the month that mmm names,
\* and never a date of another month than the one the text names.
C13_MonthNamedInText ==
    pc = "procesar_fecha" =>
        \A pre \in FechaPrefixes, d \in FechaDays, mmm \in FechaAbbrs,
           y \in FechaYears :
            texto_fecha = FechaText(pre, d, mmm, y) =>
                LET abbr == Lower(mmm) IN
                /\ ( /\ abbr \in DOMAIN MESES
                     /\ Len(d) <= 2
                     /\ ValidDate(DigitsVal(y), DigitsVal(MESES[abbr]),
                                  DigitsVal(d)) )
                      => fecha_ret =
                            Return([fecha_str |->
                                        d \o <<"/">> \o MESES[abbr]
                                          \o <<"/">> \o y,
                                    mes_anio |-> MESES[abbr] \o <<"-">> \o y])
                /\ (fecha_ret.exc = "none" /\ fecha_ret.val # FechaDesconocida)
                      => /\ abbr \in DOMAIN MESES
                         /\ MonthOfCell(fecha_ret.val.fecha_str) = MESES[abbr]

(***************************************************************************)
(* pick_hoodie_name as a state machine: a list of products is drawn and    *)
(* pick_hoodie_name is called on it.                                       *)
(***************************************************************************)
MaxProducts == 3   \* most products of one order

N_Tee == <<"T", "e", "e">>
N_Cap == <<"C", "a", "p">>
N_ZipHoodie == <<"Z", "i", "p", " ", "H", "o", "o", "d", "i", "e">>
N_Sudadera == <<" ", "S", "U", "D", "A", "D", "E", "R", "A", " ">>

\* The names of a product block: none, blank, two without a keyword and
\* two with one (one of them in capitals, between blanks).
ProductNames == {<<>>, <<" ">>, N_Tee, N_Cap, N_ZipHoodie, N_Sudadera}

\* The lists of at most max products.
ProductLists(max) ==
    UNION { [1..n -> {[name |-> nm] : nm \in ProductNames}] : n \in 0..max }

InitHoodie ==
    /\ pc = "input"
    /\ products_in \in ProductLists(MaxProducts)
    /\ hoodie_name = <<>>
    /\ texto_fecha = <<>>
    /\ fecha_ret = Return(<<>>)
    /\ nombre = <<>>
    /\ concepto = <<>>
    /\ order_in = <<>>
    /\ paid = Zero
    /\ ParsersIdle /\ RowsIdle /\ CnfIdle /\ AliIdle /\ PdfIdle

PickHoodieName ==
    /\ pc = "input"
    /\ pc' = "picked"
    /\ hoodie_name' = pick_hoodie_name(products_in)
    /\ UNCHANGED <<products_in, texto_fecha, fecha_ret, nombre, concepto,
                   order_in, paid, parserVars, rowVars, cnfVars, aliVars,
                   pdfVars>>

NextHoodie == PickHoodieName

SpecHoodie == InitHoodie /\ [][NextHoodie]_vars

\* The name of product k as the function reads it, and whether its
\* lowercase form holds one of the five keywords.
StrippedName(k) == Strip(products_in[k].name)

HasKeyword(k) ==
    \E kw \in {keywords[j] : j \in 1..Len(keywords)} :
        Contains(Lower(StrippedName(k)), kw)

\* C14: pick_hoodie_name returns the first name, in the order of the
\* list, that holds a keyword; without such a name, the first name that
\* is not empty; without any name, "sin producto".
C14_FirstKeywordElseFirstName ==
    pc = "picked" =>
        LET n == Len(products_in)
            hit(k) == StrippedName(k) # <<>> /\ HasKeyword(k)
        IN  /\ \A k \in 1..n :
                  (hit(k) /\ \A j \in 1..(k - 1) : ~hit(j))
                      => hoodie_name = StrippedName(k)
            /\ \A k \in 1..n :
                  ( /\ \A j \in 1..n : ~hit(j)
                    /\ StrippedName(k) # <<>>
                    /\ \A j \in 1..(k - 1) : StrippedName(j) = <<>> )
                      => hoodie_name = StrippedName(k)
            /\ (\A k \in 1..n : StrippedName(k) = <<>>)
                  => hoodie_name = SinProducto

\* A name with a keyword after a name without one: the later one is
\* returned.
C14_Witness ==
    /\ pc = "picked"
    /\ products_in = <<[name |-> N_Tee], [name |-> N_ZipHoodie]>>
    /\ hoodie_name = N_ZipHoodie

(***************************************************************************)
(* The Concepto of the two scrapers as a state machine: a product name is  *)
(* drawn (None: the block has no name element), and the Concepto of one    *)
(* of the scrapers is made from it.                                        *)
(***************************************************************************)
MaxNameOver == 10   \* how far the longest name goes beyond LabelMax

LabelNames ==
    {[k \in 1..n |-> "x"] : n \in 0..(LabelMax + MaxNameOver)} \cup {None}

InitLabel ==
    /\ pc = "input"
    /\ nombre \in LabelNames
    /\ concepto = <<>>
    /\ texto_fecha = <<>>
    /\ fecha_ret = Return(<<>>)
    /\ products_in = <<>>
    /\ hoodie_name = <<>>
    /\ order_in = <<>>
    /\ paid = Zero
    /\ ParsersIdle /\ RowsIdle /\ CnfIdle /\ AliIdle /\ PdfIdle

\* main of aliexpress_scraper.py on a block with that name.
AliLabel ==
    /\ pc = "input"
    /\ pc' = "ali_label"
    /\ concepto' = AliConcepto(nombre)
    /\ UNCHANGED <<nombre, texto_fecha, fecha_ret, products_in, hoodie_name,
                   order_in, paid, parserVars, rowVars, cnfVars, aliVars,
                   pdfVars>>

\* build_expense_rows on an order whose only product has that name (no
\* product when the block has none).
CnfansLabel ==
    /\ pc = "input"
    /\ pc' = "cnfans_label"
    /\ concepto' =
          ExpenseRow([Order(1, T_15_11_2025, NoAmounts) EXCEPT
                        !.products = IF nombre = None THEN <<>>
                                     ELSE <<[name |-> nombre]>>]).concepto
    /\ UNCHANGED <<nombre, texto_fecha, fecha_ret, products_in, hoodie_name,
                   order_in, paid, parserVars, rowVars, cnfVars, aliVars,
                   pdfVars>>

NextLabel == AliLabel \/ CnfansLabel

SpecLabel == InitLabel /\ [][NextLabel]_vars

\* The number of characters of a text: "pedido " is one element of 7.
CharLen(s) == Len(s) + 6 * Count(s, "pedido ")

\* The label before any cut.
FullLabel ==
    IF pc = "ali_label"
    THEN (IF nombre = None THEN SinNombre ELSE PedidoPrefix \o nombre)
    ELSE <<"pedido ">> \o (IF nombre \in {None, <<>>} THEN SinProducto
                           ELSE nombre)

\* C15: the Concepto either scraper writes has at most 80 characters; a
\* label of at most 80 characters is written as it is, and a longer one is
\* cut and ends with "...".
C15_LabelAtMost80 ==
    pc \in {"ali_label", "cnfans_label"} =>
        /\ CharLen(concepto) <= LabelMax
        /\ CharLen(FullLabel) <= LabelMax => concepto = FullLabel
        /\ CharLen(FullLabel) > LabelMax =>
              /\ Len(concepto) >= 3
              /\ SubSeq(concepto, Len(concepto) - 2, Len(concepto))
                    = <<".", ".", ".">>

(***************************************************************************)
(* Claims about the file main of aliexpress_scraper.py writes.             *)
(***************************************************************************)
\* The month key of the detail row at place i of the file: the key of the
\* block it was made from.
AliMonthOfRow(i) == AliItem(items[i]).mes_anio

\* C16: in the file the AliExpress scraper writes, the row "Total <mes>"
\* of a month stands right after the last detail row of that month.
C16_TotalAfterLastDetailOfMonth ==
    pc = "written" =>
        \A j \in 1..Len(csv_rows) :
            csv_rows[j].kind = "total" =>
                /\ j > 1
                /\ csv_rows[j - 1].kind = "detail"
                /\ csv_rows[j].fecha = <<"Total ">> \o AliMonthOfRow(j - 1)
                /\ \A i \in (j + 1)..Len(csv_rows) :
                      csv_rows[i].kind = "detail" =>
                          AliMonthOfRow(i) # AliMonthOfRow(j - 1)

(***************************************************************************)
(* Claims about scrape_cnfans_orders, checked under SpecScrape.            *)
(***************************************************************************)
DateLE(a, b) == ~DateLT(b, a)

\* Whether the date of order o parses and lies in [START_DATE, END_DATE].
InRange(o) ==
    LET d == parse_create_time_to_date(o.create_time)
    IN  d # NoDate /\ DateLE(START_DATE, d) /\ DateLE(d, END_DATE)

\* The examined orders in range that have no order number.
ExaminedUnnumbered ==
    {e \in examined :
        InRange(pages[e[1]][e[2]]) /\ pages[e[1]][e[2]].order_no = <<>>}

\* C17: an order in range without an order number is not lost: once its
\* page is collected it is among all_orders, and the output has one detail
\* row with an empty reference for each such order.
C17_UnnumberedOrderKept ==
    /\ pc \in {"next", "done", "input", "built"} =>
          \A k \in 1..Len(processed_orders) :
              processed_orders[k].order_no = <<>> =>
                  \E j \in 1..Len(all_orders) :
                      all_orders[j] = processed_orders[k]
    /\ pc = "built" =>
          Cardinality({i \in Details(final_rows) :
                          final_rows[i].pedido = <<>>})
              = Cardinality(ExaminedUnnumbered)

(***************************************************************************)
(* compute_paid_amount as a state machine: an order is drawn and           *)
(* compute_paid_amount is called on it.  A key the order does not have     *)
(* reads as "", like a field the page left empty.                          *)
(***************************************************************************)
A_Free == <<"f", "r", "e", "e">>
A_Euro10 == <<"<euro>", "1", "0", ".", "0", "0">>
A_NA == <<"n", "/", "a">>

\* Each amount field: empty or a text; the two fields of higher priority
\* also with a text that holds no number.
PaidOrders ==
    { [Order(1, T_15_11_2025, NoAmounts) EXCEPT
          !.actual_payment = ap, !.total_amount = ta,
          !.total_product_amount = tp, !.domestic_shipping = ds,
          !.value_added_services = vs, !.shipping_cost = sh] :
        ap \in {<<>>, A_Free, A_Euro10},
        ta \in {<<>>, <<"7">>, A_NA},
        tp \in {<<>>, <<"5">>},
        ds \in {<<>>, <<"1", ",", "5", "0">>},
        vs \in {<<>>, <<"0", ".", "2", "5">>},
        sh \in {<<>>, <<"2">>} }

InitPaid ==
    /\ pc = "input"
    /\ order_in \in PaidOrders
    /\ paid = Zero
    /\ texto_fecha = <<>>
    /\ fecha_ret = Return(<<>>)
    /\ products_in = <<>>
    /\ hoodie_name = <<>>
    /\ nombre = <<>>
    /\ concepto = <<>>
    /\ ParsersIdle /\ RowsIdle /\ CnfIdle /\ AliIdle /\ PdfIdle

ComputePaidAmount ==
    /\ pc = "input"
    /\ pc' = "paid"
    /\ paid' = compute_paid_amount(order_in)
    /\ UNCHANGED <<order_in, texto_fecha, fecha_ret, products_in,
                   hoodie_name, nombre, concepto, parserVars, rowVars,
                   cnfVars, aliVars,
                   pdfVars>>

NextPaid == ComputePaidAmount

SpecPaid == InitPaid /\ [][NextPaid]_vars

\* parse_money of a field, in units of 10^-FracDigits.
FieldScaled(text) == ToScaled(parse_money(text).val)

\* C18: the paid amount is parse_money of actual_payment when that field
\* is not empty, even if it parses to zero; else parse_money of
\* total_amount when that field is not empty; else the sum of parse_money
\* over the four component fields, an empty one counting as zero.
C18_PaidAmountPriority ==
    pc = "paid" =>
        LET o == order_in IN
        /\ o.actual_payment # <<>> =>
              paid = parse_money(o.actual_payment).val
        /\ (o.actual_payment = <<>> /\ o.total_amount # <<>>) =>
              paid = parse_money(o.total_amount).val
        /\ (o.actual_payment = <<>> /\ o.total_amount = <<>>) =>
              ToScaled(paid) =
                  FieldScaled(o.total_product_amount)
                    + FieldScaled(o.domestic_shipping)
                    + FieldScaled(o.value_added_services)
                    + FieldScaled(o.shipping_cost)
        /\ \A f \in {o.total_product_amount, o.domestic_shipping,
                     o.value_added_services, o.shipping_cost} :
              f = <<>> => FieldScaled(f) = 0

\* An actual_payment that holds no number, beside a total_amount of 7 and
\* components: the result is zero.
C18_Witness ==
    /\ pc = "paid"
    /\ order_in.actual_payment = A_Free
    /\ order_in.total_amount = <<"7">>
    /\ order_in.total_product_amount = <<"5">>
    /\ paid = Zero

\* The date of the order at place e = <<page, i>> of the site.
SiteDate(e) == parse_create_time_to_date(pages[e[1]][e[2]].create_time)

\* C19: every order process_page_orders returns, and every order of
\* all_orders and of the list scrape_cnfans_orders returns, has a date d
\* that parses with START_DATE <= d <= END_DATE; an order dated after
\* END_DATE is left out, the order after it on the page is still examined,
\* and it does not set stop_early.
C19_CollectedOrdersInRange ==
    /\ \A k \in 1..Len(processed_orders) : InRange(processed_orders[k])
    /\ \A k \in 1..Len(all_orders) : InRange(all_orders[k])
    /\ \A k \in 1..Len(orders) : InRange(orders[k])
    /\ \A e \in examined :
          (SiteDate(e) # NoDate /\ DateLT(END_DATE, SiteDate(e))) =>
              /\ e[2] < Len(pages[e[1]]) =>
                    \/ <<e[1], e[2] + 1>> \in examined
                    \/ pc = "loop" /\ page_no = e[1] /\ idx = e[2] + 1
              /\ (stop_early /\ page_no = e[1]) =>
                    \E f \in examined :
                        /\ f[1] = e[1]
                        /\ SiteDate(f) # NoDate
                        /\ DateLT(SiteDate(f), START_DATE)
    /\ \A e \in examined :
          (pc \in {"next", "done", "input", "built"}
             /\ InRange(pages[e[1]][e[2]])
             /\ pages[e[1]][e[2]].order_no # <<>>) =>
              \E k \in 1..Len(all_orders) : all_orders[k] = pages[e[1]][e[2]]

\* Run on 10 December: the order of 11 December, first on the page, was
\* left out, and the list returned holds the order dated START_DATE that
\* came after it.
C19_Witness ==
    /\ pc = "input"
    /\ END_DATE = Date(2025, 12, 10)
    /\ Len(pages[1]) = 2
    /\ pages[1][1].create_time = T_11_12_2025
    /\ pages[1][2].create_time = T_2025_12_09
    /\ orders = <<pages[1][2]>>

\* Run on 11 December: the orders dated START_DATE and END_DATE are both
\* in the list returned.
C19_WitnessBothEnds ==
    /\ pc = "input"
    /\ END_DATE = Date(2025, 12, 11)
    /\ Len(orders) = 2
    /\ SiteDate(<<1, 1>>) = END_DATE
    /\ SiteDate(<<1, 2>>) = START_DATE
    /\ orders = pages[1]

MaxPartes == 3    \* largest num_partes tried

Metodos == {"importe", "registros"}

NUM_PARTES == 2

METODO_DIVISION == "importe"

RESUMEN == <<"R", "E", "S", "U", "M", "E", "N">>

TOTAL == <<"T", "O", "T", "A", "L">>

\* The condition under which a loader keeps a line after the header:
\* fila and any(fila) and 'RESUMEN' not in str(fila).upper() and 'TOTAL'
\* not in the first cell, which combinar_csv_en_pdf takes as it is and the
\* other two loaders in upper case.
KeepsFila(fila, funcion) ==
    /\ fila # <<>>
    /\ \E i \in 1..Len(fila) : fila[i] # <<>>
    /\ \A i \in 1..Len(fila) : ~Contains(Upper(fila[i]), RESUMEN)
    /\ IF funcion = "combinar_csv_en_pdf"
       THEN ~Contains(SpellOut(fila[1]), TOTAL)
       ELSE ~Contains(Upper(fila[1]), TOTAL)

\* The lines of datos[1:] a loader keeps.
FilasDatos(datos, funcion) ==
    SelectSeq(Tail(datos), LAMBDA fila : KeepsFila(fila, funcion))

datetime_min == Date(1, 1, 1)

\* parse_fecha: the first cell as %d/%m/%Y when it holds a '/', as
\* %d-%m-%Y when it holds a '-'; datetime.min for any other cell and for
\* a cell strptime refuses.
parse_fecha(fila) ==
    LET fecha_cell == fila[1]
        sep == IF Count(fecha_cell, "/") > 0 THEN "/"
               ELSE IF Count(fecha_cell, "-") > 0 THEN "-" ELSE ""
        p == strptime(fecha_cell, Fmt("dmy", sep, 0))
    IN  IF fila = <<>> \/ sep = "" THEN datetime_min
        ELSE IF p.ok THEN p.date ELSE datetime_min

\* r put behind the rows of sorted that are not older than it.
InsertByFechaDesc(sorted, r) ==
    LET later == {i \in 1..Len(sorted) :
                     DateLT(parse_fecha(sorted[i]), parse_fecha(r))}
        at == IF later = {} THEN Len(sorted) + 1
              ELSE CHOOSE i \in later : \A j \in later : i <= j
    IN  SubSeq(sorted, 1, at - 1) \o <<r>> \o SubSeq(sorted, at, Len(sorted))

\* filas_datos.sort(key=parse_fecha, reverse=True): newest first, rows of
\* one date in the order of the file.
RECURSIVE SortByFechaDesc(_)
SortByFechaDesc(filas) ==
    IF filas = <<>> THEN <<>>
    ELSE InsertByFechaDesc(SortByFechaDesc(SubSeq(filas, 1, Len(filas) - 1)),
                           filas[Len(filas)])

\* extraer_importe: the third cell with '.' for ',' and stripped, as a
\* float; 0.0 when float refuses it or the line has no third cell.
extraer_importe(fila) ==
    IF Len(fila) < 3 THEN Zero
    ELSE LET r == PyFloat(Strip(Replace(fila[3], ",", ".")))
         IN  IF r.exc = "none" THEN r.val ELSE Zero

\* sum(extraer_importe(fila) for fila in filas)
RECURSIVE SumaImportes(_)
SumaImportes(filas) ==
    IF filas = <<>> THEN Zero
    ELSE FloatAdd(SumaImportes(SubSeq(filas, 1, Len(filas) - 1)),
                  extraer_importe(filas[Len(filas)]))

\* The condition without its middle part: a part is closed even when it
\* has no row yet.
CierraParteVacia(importe_acumulado, importe_fila, importe_total, num_partes, parte_actual, partes) ==
    /\ ToScaled(FloatAdd(importe_acumulado, importe_fila)) * num_partes
          > ToScaled(importe_total)
    /\ Len(partes) < num_partes - 1

\* importe_acumulado + importe_fila > importe_por_parte and parte_actual
\* and len(partes) < num_partes - 1, where importe_por_parte is
\* importe_total / num_partes (the division is taken exactly).
CierraParte(importe_acumulado, importe_fila, importe_total, num_partes, parte_actual, partes) ==
    /\ ToScaled(FloatAdd(importe_acumulado, importe_fila)) * num_partes
          > ToScaled(importe_total)
    /\ parte_actual # <<>>
    /\ Len(partes) < num_partes - 1

\* The loop "for fila in filas_datos" of the method 'importe' and the
\* lines after it.
RECURSIVE PartesPorImporte(_, _, _, _, _, _)
PartesPorImporte(filas, num_partes, importe_total, partes, parte_actual, importe_acumulado) ==
    IF filas = <<>>
    THEN IF parte_actual # <<>> THEN Append(partes, parte_actual) ELSE partes
    ELSE LET fila == Head(filas)
             importe_fila == extraer_importe(fila)
         IN  IF CierraParte(importe_acumulado, importe_fila, importe_total,
                            num_partes, parte_actual, partes)
             THEN PartesPorImporte(Tail(filas), num_partes, importe_total,
                                   Append(partes, parte_actual), <<fila>>,
                                   importe_fila)
             ELSE PartesPorImporte(Tail(filas), num_partes, importe_total,
                                   partes, Append(parte_actual, fila),
                                   FloatAdd(importe_acumulado, importe_fila))

\* Every part ends registros_por_parte rows after its start: the rows
\* left over are in no part.
FinDeParteSinResto(i, registros_por_parte, num_partes, n_filas) ==
    i * registros_por_parte + registros_por_parte

\* fin of the part at index i (from 0): the last part takes the rest.
FinDeParte(i, registros_por_parte, num_partes, n_filas) ==
    IF i = num_partes - 1 THEN n_filas
    ELSE i * registros_por_parte + registros_por_parte

\* The method 'registros': filas_datos[inicio:fin] for i in
\* range(num_partes).
PartesPorRegistros(filas, num_partes) ==
    LET registros_por_parte == Len(filas) \div num_partes
    IN  [k \in 1..num_partes |->
            SubSeq(filas, (k - 1) * registros_por_parte + 1,
                   FinDeParte(k - 1, registros_por_parte, num_partes,
                              Len(filas)))]

\* partes of "Dividir segun el metodo".
Partes(filas, num_partes, metodo) ==
    IF metodo = "importe"
    THEN PartesPorImporte(filas, num_partes, SumaImportes(filas), <<>>, <<>>,
                          Zero)
    ELSE PartesPorRegistros(filas, num_partes)

\* A PDF: its name ends in _i_de_n.pdf (i = 0: a name without number),
\* its table has the header, filas and, unless fila_total is empty, the
\* line fila_total.
Pdf(i, n, encabezado, filas, fila_total) ==
    [i |-> i, de |-> n, encabezado |-> encabezado, filas |-> filas,
     fila_total |-> fila_total]

\* fila_total: as many cells as the header, the total to two digits in
\* the third and texto_total in the fourth.
FilaTotal(encabezado, importe_total, texto_total) ==
    [k \in 1..Len(encabezado) |->
        IF k = 3 THEN Format2f(importe_total)
        ELSE IF k = 4 THEN texto_total ELSE <<>>]

\* The PDFs of the parts: one each, named _i_de_len(partes), with the
\* total of its rows.
PdfsDePartes(encabezado, partes, con_numero) ==
    [k \in 1..Len(partes) |->
        Pdf(k, Len(partes), encabezado, partes[k],
            FilaTotal(encabezado, SumaImportes(partes[k]),
                      IF con_numero
                      THEN TOTAL \o <<" ", "P", "A", "R", "T", "E", " ">>
                              \o NatText(k) \o <<" ", "d", "e", " ">>
                              \o NatText(Len(partes))
                      ELSE TOTAL))]

\* "Dividir segun el metodo" and "Generar PDFs", for the ledger filas_datos
\* (con_numero: the last line of each PDF names the part).  The sets of
\* one element only give a name to a value.
DividirYGenerarPdfs(encabezado, filas_datos, num_partes, metodo, con_numero) ==
    CHOOSE r \in
        { [loaded |-> <<filas_datos>>,
           splits |-> << [filas_datos |-> filas_datos,
                          num_partes |-> num_partes, metodo |-> metodo,
                          partes |-> partes] >>,
           pdfs |-> PdfsDePartes(encabezado, partes, con_numero)] :
            partes \in {Partes(filas_datos, num_partes, metodo)} } : TRUE

\* _generar_pdf_unico: one PDF with all rows and their total.
GenerarPdfUnico(encabezado, filas_datos) ==
    [loaded |-> <<filas_datos>>, splits |-> <<>>,
     pdfs |-> <<Pdf(0, 0, encabezado, filas_datos,
                    FilaTotal(encabezado, SumaImportes(filas_datos),
                              TOTAL))>>]

\* One turn of the loop of procesar_gastos_por_proveedor, for the file
\* datos: nothing for a file with nothing after its header; else the PDFs
\* of its parts when dividir and num_partes > 1, and one PDF otherwise.
ProcesarCsv(datos, dividir, num_partes, metodo) ==
    IF Len(datos) <= 1 THEN NoRun
    ELSE CHOOSE r \in
            { IF dividir /\ num_partes > 1
              THEN DividirYGenerarPdfs(datos[1], filas, num_partes, metodo,
                                       TRUE)
              ELSE GenerarPdfUnico(datos[1], filas) :
                filas \in {SortByFechaDesc(
                    FilasDatos(datos, "procesar_gastos_por_proveedor"))} } :
            TRUE

\* procesar_gastos_por_proveedor: every file on its own.
RECURSIVE procesar_gastos_por_proveedor(_, _, _, _)
procesar_gastos_por_proveedor(csv_files, dividir, num_partes, metodo) ==
    IF csv_files = <<>> THEN NoRun
    ELSE CHOOSE r \in
            { [loaded |-> one.loaded \o rest.loaded,
               splits |-> one.splits \o rest.splits,
               pdfs |-> one.pdfs \o rest.pdfs] :
                one \in {ProcesarCsv(Head(csv_files), dividir, num_partes,
                                     metodo)},
                rest \in {procesar_gastos_por_proveedor(
                             Tail(csv_files), dividir, num_partes, metodo)} } :
            TRUE

\* datos_combinados[1:] of the two loaders that read all files into one
\* list: the lines each file gives, in the order of the files.
RECURSIVE FilasCombinadas(_, _)
FilasCombinadas(csv_files, funcion) ==
    IF csv_files = <<>> THEN <<>>
    ELSE (IF Head(csv_files) = <<>> THEN <<>>
          ELSE FilasDatos(Head(csv_files), funcion))
            \o FilasCombinadas(Tail(csv_files), funcion)

\* datos_combinados[0]: the header of the first file that has a line.
Encabezado(csv_files) ==
    LET full == {k \in 1..Len(csv_files) : csv_files[k] # <<>>}
    IN  csv_files[CHOOSE k \in full : \A j \in full : k <= j][1]

\* dividir_gastos_en_pdfs: all files as one ledger, split.  Nothing is
\* written when no line is left.
dividir_gastos_en_pdfs(csv_files, num_partes, metodo) ==
    CHOOSE r \in
        { IF filas = <<>> THEN NoRun
          ELSE DividirYGenerarPdfs(Encabezado(csv_files), filas, num_partes,
                                   metodo, FALSE) :
            filas \in {SortByFechaDesc(
                FilasCombinadas(csv_files, "dividir_gastos_en_pdfs"))} } :
        TRUE

\* combinar_csv_en_pdf: all files as one table, without a total.
combinar_csv_en_pdf(csv_files) ==
    CHOOSE r \in
        { IF filas = <<>> THEN NoRun
          ELSE [loaded |-> <<filas>>, splits |-> <<>>,
                pdfs |-> <<Pdf(0, 0, Encabezado(csv_files), filas, <<>>)>>] :
            filas \in {SortByFechaDesc(
                FilasCombinadas(csv_files, "combinar_csv_en_pdf"))} } :
        TRUE

(***************************************************************************)
(* The scripts as a state machine: a scraper writes its CSV file, then     *)
(* csv_to_pdf.py is run with one of its three functions.                   *)
(***************************************************************************)
MaxCsvRows == 2   \* most orders the scraper has found

\* save_expenses_to_csv(expense_rows, OUTPUT_CSV) of __main__.
SaveExpensesToCsv ==
    /\ pc = "built"
    /\ pc' = "saved"
    /\ disk' = <<save_expenses_to_csv(final_rows)>>
    /\ UNCHANGED <<parserVars, rowVars, cnfVars, aliVars, fnVars, run>>

CsvOnDisk == pc \in {"written", "saved", "csv"}

\* procesar_gastos_por_proveedor(archivos_csv, dividir=..., num_partes=...,
\* metodo=...); without dividir the other two arguments are not read and
\* keep the values of the configuration.
ProcesarGastosPorProveedor ==
    /\ CsvOnDisk
    /\ \E dividir \in BOOLEAN :
          \E num_partes \in IF dividir THEN 1..MaxPartes ELSE {NUM_PARTES},
             metodo \in IF dividir THEN Metodos ELSE {METODO_DIVISION} :
            run' = procesar_gastos_por_proveedor(disk, dividir, num_partes,
                                                 metodo)
    /\ pc' = "procesar_gastos_por_proveedor"
    /\ UNCHANGED <<disk, parserVars, rowVars, cnfVars, aliVars, fnVars>>

DividirGastosEnPdfs ==
    /\ CsvOnDisk
    /\ \E num_partes \in 1..MaxPartes, metodo \in Metodos :
          run' = dividir_gastos_en_pdfs(disk, num_partes, metodo)
    /\ pc' = "dividir_gastos_en_pdfs"
    /\ UNCHANGED <<disk, parserVars, rowVars, cnfVars, aliVars, fnVars>>

CombinarCsvEnPdf ==
    /\ CsvOnDisk
    /\ run' = combinar_csv_en_pdf(disk)
    /\ pc' = "combinar_csv_en_pdf"
    /\ UNCHANGED <<disk, parserVars, rowVars, cnfVars, aliVars, fnVars>>

InitPdfAli ==
    /\ pc = "items"
    /\ items \in AliItemLists(MaxCsvRows)
    /\ item_no = 1
    /\ datos_csv = <<>>
    /\ totales_por_mes = <<>>
    /\ csv_rows = <<>>
    /\ ParsersIdle /\ RowsIdle /\ CnfIdle /\ FnIdle /\ PdfIdle

InitPdfCnfans ==
    /\ pc = "input"
    /\ orders \in OrderLists(MaxCsvRows)
    /\ final_rows = <<>>
    /\ ParsersIdle /\ CnfIdle /\ AliIdle /\ FnIdle /\ PdfIdle

NextPdf ==
    \/ ProcessItem
    \/ WriteCsv
    \/ BuildExpenseRows
    \/ SaveExpensesToCsv
    \/ ProcesarGastosPorProveedor
    \/ DividirGastosEnPdfs
    \/ CombinarCsvEnPdf

SpecPdf == (InitPdfAli \/ InitPdfCnfans) /\ [][NextPdf]_vars

(***************************************************************************)
(* The split on ledgers written by hand: a file of at most MaxRows lines   *)
(* after its header, each with a date, an amount and its own reference.    *)
(***************************************************************************)
MaxRows == 3   \* most lines of the ledger

LedgerFechas ==
    {<<"2", "6", "/", "1", "2", "/", "2", "0", "2", "5">>,
     <<"0", "5", "/", "1", "1", "/", "2", "0", "2", "5">>}

LedgerImportes ==
    {<<"1", "5", ",", "9", "2">>, <<"0", ",", "0">>, <<"-", "3", ",", "5">>}

LedgerRow(fecha_cell, importe_cell, k) ==
    << fecha_cell, <<"AliExpress Europa S.L.">>, importe_cell,
       PedidoPrefix \o <<"T", "e", "e">>, OrderNo(k), <<"Tarjeta">> >>

Ledgers(max) ==
    UNION { { <<AliFieldnames>>
                 \o [k \in 1..n |-> LedgerRow(fs[k], ims[k], k)] :
                fs \in [1..n -> LedgerFechas],
                ims \in [1..n -> LedgerImportes] } : n \in 0..max }

InitLedger ==
    /\ pc = "csv"
    /\ disk \in {<<f>> : f \in Ledgers(MaxRows)}
    /\ run = NoRun
    /\ ParsersIdle /\ RowsIdle /\ CnfIdle /\ AliIdle /\ FnIdle

NextSplit ==
    \/ ProcesarGastosPorProveedor
    \/ DividirGastosEnPdfs
    \/ CombinarCsvEnPdf

SpecSplit == InitLedger /\ [][NextSplit]_vars

(***************************************************************************)
(* Claims about csv_to_pdf.py (SpecPdf, SpecSplit).                        *)
(***************************************************************************)
Loaders ==
    {"procesar_gastos_por_proveedor", "dividir_gastos_en_pdfs",
     "combinar_csv_en_pdf"}

\* The lines of the file on disk that the scraper wrote for an order: the
\* rows of kind "detail" of gastos_aliexpress.csv, the rows with a date of
\* cnfans_pedidos_gastos.csv.
DetailLines ==
    {disk[1][i + 1] : i \in {j \in 1..Len(csv_rows) :
                                csv_rows[j].kind = "detail"}}
    \cup {disk[1][i + 1] : i \in {j \in 1..Len(final_rows) :
                                     IsDetail(final_rows[j])}}

\* C21: after any of the three loaders has run on the CSV a scraper
\* wrote, every line among its data rows is the line of an order: the
\* header, the blank line and the summary lines (RESUMEN MENSUAL,
\* Total <mes>, TOTAL MES <yyyy-mm>) are not among them.
C21_OnlyDetailRowsLoaded ==
    pc \in Loaders =>
        \A k \in 1..Len(run.loaded) :
            \A i \in 1..Len(run.loaded[k]) :
                run.loaded[k][i] \in DetailLines

\* C22: a split of a ledger that is not empty into num_partes = n parts
\* has exactly n parts, by either method, and writes n PDFs, named
\* _1_de_n to _n_de_n.
C22_ExactlyNParts ==
    \A k \in 1..Len(run.splits) :
        LET s == run.splits[k]
        IN  s.filas_datos # <<>> =>
                /\ Len(s.partes) = s.num_partes
                /\ Len(run.pdfs) = s.num_partes
                /\ \A i \in 1..Len(run.pdfs) :
                      run.pdfs[i].i = i /\ run.pdfs[i].de = s.num_partes

\* The parts joined in order.
RECURSIVE Concat(_)
Concat(partes) ==
    IF partes = <<>> THEN <<>> ELSE Head(partes) \o Concat(Tail(partes))

\* The lines after the header of the file on disk that hold an amount.
LedgerLines == Tail(disk[1])

\* filas is a list of the lines of the ledger, each once, newest first,
\* lines of one date in the order of the file.
DateSorted(filas) ==
    /\ Len(filas) = Len(LedgerLines)
    /\ \A r \in 1..Len(LedgerLines) :
          \E i \in 1..Len(filas) : filas[i] = LedgerLines[r]
    /\ \A i, j \in 1..Len(filas) :
          i < j =>
            /\ ~DateLT(parse_fecha(filas[i]), parse_fecha(filas[j]))
            /\ parse_fecha(filas[i]) = parse_fecha(filas[j]) =>
                  \E a, b \in 1..Len(LedgerLines) :
                      /\ a < b
                      /\ LedgerLines[a] = filas[i]
                      /\ LedgerLines[b] = filas[j]

Scaled(filas) == ToScaled(SumaImportes(filas))

RECURSIVE SumOfParts(_)
SumOfParts(partes) ==
    IF partes = <<>> THEN 0
    ELSE Scaled(Head(partes)) + SumOfParts(Tail(partes))

\* C23: by either method the parts of a split, joined in order, are the
\* date-sorted list of the data rows, so that every row is in exactly one
\* part and the totals of the parts add up to the total of the ledger.
C23_PartsPartitionTheLedger ==
    \A k \in 1..Len(run.splits) :
        LET s == run.splits[k]
        IN  /\ DateSorted(s.filas_datos)
            /\ Concat(s.partes) = s.filas_datos
            /\ SumOfParts(s.partes) = Scaled(LedgerLines)
            /\ Len(run.pdfs) = Len(s.partes)
            /\ \A i \in 1..Len(run.pdfs) :
                  /\ run.pdfs[i].filas = s.partes[i]
                  /\ run.pdfs[i].fila_total[3]
                        = Format2f(SumaImportes(s.partes[i]))

\* A ledger of three rows whose dates are not in order was split in
\* three parts by the records, and in two parts or more by the amounts.
C23_Witness ==
    /\ Len(run.splits) = 1
    /\ Len(run.splits[1].filas_datos) = 3
    /\ run.splits[1].filas_datos # LedgerLines
    /\ run.splits[1].metodo = "registros"
    /\ Len(run.splits[1].partes) = 3

C23_WitnessImporte ==
    /\ Len(run.splits) = 1
    /\ Len(run.splits[1].filas_datos) = 3
    /\ run.splits[1].filas_datos # LedgerLines
    /\ run.splits[1].metodo = "importe"
    /\ Len(run.splits[1].partes) >= 2

\* C24: a split by 'importe' into n parts has at most n parts and none
\* of them is empty; every part but the last is one row, or its amounts
\* add up to at most total / n; and where a part was closed, the row
\* after it would have taken it above total / n and fewer than n - 1
\* parts were closed before it.
C24_ImporteParts ==
    \A k \in 1..Len(run.splits) :
        LET s == run.splits[k]
            n == s.num_partes
            total == Scaled(s.filas_datos)
        IN  s.metodo = "importe" =>
                /\ Len(s.partes) <= n
                /\ \A i \in 1..Len(s.partes) : s.partes[i] # <<>>
                /\ \A i \in 1..(Len(s.partes) - 1) :
                      /\ \/ Len(s.partes[i]) = 1
                         \/ Scaled(s.partes[i]) * n <= total
                      /\ (Scaled(s.partes[i])
                             + Scaled(<<s.partes[i + 1][1]>>)) * n > total
                      /\ i - 1 < n - 1

\* A split by 'importe' into two parts whose first part was closed with
\* two rows in it.
C24_Witness ==
    /\ Len(run.splits) = 1
    /\ run.splits[1].metodo = "importe"
    /\ run.splits[1].num_partes = 2
    /\ Len(run.splits[1].partes) = 2
    /\ Len(run.splits[1].partes[1]) = 2

\* A split by 'importe' into three parts whose first part is one row
\* above total / 3.
C24_WitnessSingleRow ==
    /\ Len(run.splits) = 1
    /\ run.splits[1].metodo = "importe"
    /\ run.splits[1].num_partes = 3
    /\ Len(run.splits[1].partes) = 3
    /\ Scaled(run.splits[1].partes[1]) * 3 > Scaled(run.splits[1].filas_datos)

(***************************************************************************)
(* The order list of a site that shows an order more than once: the list   *)
(* moves while the scraper turns its pages, so that an order can come back *)
(* on the same page or on a later one.  The orders are in the range of     *)
(* dates; two occurrences of a number can differ in their date text.       *)
(***************************************************************************)
DupCreateTimes == {T_2025_12_09, T_11_12_2025}

DupLists(max) ==
    UNION { { [k \in 1..n |-> SiteOrder(nos[k], cts[k])] :
                cts \in [1..n -> DupCreateTimes],
                nos \in [1..n -> {OrderNo(1), OrderNo(2)}] } : n \in 0..max }

InitDup ==
    /\ pc = "page"
    /\ pages \in {Paginate(os) : os \in DupLists(MaxSiteOrders)}
    /\ END_DATE \in Todays
    /\ page_no = 1
    /\ idx = 0
    /\ processed_orders = <<>>
    /\ stop_early = FALSE
    /\ all_orders = <<>>
    /\ seen_order_nos = {}
    /\ examined = {}
    /\ ParsersIdle /\ RowsIdle /\ AliIdle /\ FnIdle /\ PdfIdle

SpecDedup == (InitScrape \/ InitDup) /\ [][NextScrape]_vars

OrderNosOf(os) == {os[k].order_no : k \in 1..Len(os)}

\* The places of orders_on_page whose order has a number that is neither
\* in all_orders nor at an earlier place of the page.
FirstSeen(orders_on_page, all) ==
    {k \in 1..Len(orders_on_page) :
        /\ orders_on_page[k].order_no # <<>>
        /\ orders_on_page[k].order_no \notin OrderNosOf(all)
        /\ \A j \in 1..(k - 1) :
              orders_on_page[j].order_no # orders_on_page[k].order_no}

\* The orders at the places K of os, in the order of os.
AtPlaces(os, K) ==
    [i \in 1..Cardinality(K) |->
        os[CHOOSE k \in K : Cardinality({j \in K : j < k}) = i - 1]]

\* C25: all_orders never holds two orders with one order number; the
\* loop over the orders of a page keeps what all_orders held, in its order,
\* and appends, in the order of the page, the first occurrence of every
\* number that all_orders did not hold.
C25_NoDuplicateOrderNumbers ==
    /\ [](\A i, j \in 1..Len(all_orders) :
             all_orders[i].order_no = all_orders[j].order_no => i = j)
    /\ [][pc = "collect" =>
             all_orders' = all_orders
                 \o AtPlaces(processed_orders,
                             FirstSeen(processed_orders, all_orders))]_vars

\* The site showed an order number on its first page and again, with
\* another date text, on its second page; the scraper is done and
\* all_orders holds the two orders of the first page.
C25_Witness ==
    /\ pc = "done"
    /\ Len(pages) = 2
    /\ Len(pages[1]) = 2
    /\ pages[2][1].order_no = pages[1][1].order_no
    /\ pages[2][1] # pages[1][1]
    /\ examined = {<<1, 1>>, <<1, 2>>, <<2, 1>>}
    /\ all_orders = pages[1]

\* The number came back on the same page: the second order of the page
\* has the number of the first one and was left out.
C25_WitnessSamePage ==
    /\ pc = "done"
    /\ Len(pages) = 1
    /\ Len(pages[1]) = 2
    /\ pages[1][2].order_no = pages[1][1].order_no
    /\ pages[1][2] # pages[1][1]
    /\ examined = {<<1, 1>>, <<1, 2>>}
    /\ all_orders = <<pages[1][1]>>

\* The amount a cell of the amount column stands for: the amount of the
\* row as the scraper wrote it, to two fraction digits where the scraper
\* formats it so.
Written2f(importe) == PyFloat(Format2f(importe)).val

\* C26: every line with an amount in a CSV that a scraper wrote is read
\* back by extraer_importe as the amount written: the orders and month
\* totals of gastos_aliexpress.csv, and the orders and month totals of
\* cnfans_pedidos_gastos.csv.
C26_AmountCellsRoundTrip ==
    disk # <<>> =>
        /\ \A j \in 1..Len(csv_rows) :
              /\ csv_rows[j].kind = "detail" =>
                    extraer_importe(disk[1][j + 1]) = csv_rows[j].importe
              /\ csv_rows[j].kind = "total" =>
                    extraer_importe(disk[1][j + 1])
                        = Written2f(csv_rows[j].importe)
        /\ \A j \in 1..Len(final_rows) :
              extraer_importe(disk[1][j + 1])
                  = Written2f(final_rows[j].importe)

=============================================================================
